---- MODULE Spec2Model ----
(***************************************************************************)
(* Model of the SME content-generation service of Learning-Middleware:     *)
(* the learning-objective generator (sme/lo_gen/main.py), the inference    *)
(* client it calls (sme/lo_gen/vllm_client.py), the quiz workflow          *)
(* (sme/quiz_gen/main.py) and vector-store construction (sme/chat/rag.py,  *)
(* sme/apiserver.py).                                                      *)
(*                                                                         *)
(* A Python str is a sequence of one-character strings, so that strip,     *)
(* rstrip, split, lower and startswith are computed character by           *)
(* character as the code computes them.                                    *)
(***************************************************************************)
EXTENDS Integers, Sequences, FiniteSets, TLC

(***************************************************************************)
(* Bounds of the model                                                     *)
(***************************************************************************)
MaxNLos == 2          \* n_los is drawn from 0..MaxNLos
MaxQuestions == 2     \* cfg.quiz_gen.num_questions is drawn from 1..MaxQuestions
MaxBuildCalls == 3    \* build_vector_store requests issued in one behaviour

(***************************************************************************)
(* Python str operations                                                   *)
(***************************************************************************)
UpperAlpha == <<"A","B","C","D","E","F","G","H","I","J","K","L","M",
                "N","O","P","Q","R","S","T","U","V","W","X","Y","Z">>
LowerAlpha == <<"a","b","c","d","e","f","g","h","i","j","k","l","m",
                "n","o","p","q","r","s","t","u","v","w","x","y","z">>

\* str.lower() / str.upper() on one character, as lookup tables
ToLowerTable == [c \in {UpperAlpha[i] : i \in 1..26} |->
                    LowerAlpha[CHOOSE i \in 1..26 : UpperAlpha[i] = c]]
ToUpperTable == [c \in {LowerAlpha[i] : i \in 1..26} |->
                    UpperAlpha[CHOOSE i \in 1..26 : LowerAlpha[i] = c]]
IsUpperChar(c) == c \in DOMAIN ToLowerTable
IsLowerChar(c) == c \in DOMAIN ToUpperTable
ToLowerChar(c) == IF IsUpperChar(c) THEN ToLowerTable[c] ELSE c
ToUpperChar(c) == IF IsLowerChar(c) THEN ToUpperTable[c] ELSE c

IsSpace(c) == c \in {" ", "\t", "\n"}

\* str.lower()
Lower(s) == [i \in 1..Len(s) |-> ToLowerChar(s[i])]

\* str.lstrip() / str.rstrip() / str.strip()
RECURSIVE LStrip(_)
LStrip(s) == IF s # <<>> /\ IsSpace(Head(s)) THEN LStrip(Tail(s)) ELSE s
RECURSIVE RStrip(_)
RStrip(s) ==
    IF s # <<>> /\ IsSpace(s[Len(s)]) THEN RStrip(SubSeq(s, 1, Len(s) - 1)) ELSE s
Strip(s) == RStrip(LStrip(s))

\* str.rstrip('.')
RECURSIVE RStripDot(_)
RStripDot(s) ==
    IF s # <<>> /\ s[Len(s)] = "." THEN RStripDot(SubSeq(s, 1, Len(s) - 1)) ELSE s

\* str.split(): the maximal runs of non-whitespace characters, in order
RECURSIVE SplitFrom(_, _, _)
SplitFrom(s, i, cur) ==
    IF i > Len(s)
    THEN IF cur = <<>> THEN <<>> ELSE <<cur>>
    ELSE IF IsSpace(s[i])
         THEN (IF cur = <<>> THEN <<>> ELSE <<cur>>) \o SplitFrom(s, i + 1, <<>>)
         ELSE SplitFrom(s, i + 1, Append(cur, s[i]))
Split(s) == SplitFrom(s, 1, <<>>)

\* str.startswith(p)
StartsWith(s, p) == Len(p) <= Len(s) /\ SubSeq(s, 1, Len(p)) = p

\* p in s (substring test)
Contains(s, p) ==
    \E i \in 1..(Len(s) - Len(p) + 1) : SubSeq(s, i, i + Len(p) - 1) = p

\* str.count(' ')
CountSpaces(s) == Cardinality({i \in 1..Len(s) : s[i] = " "})

Range(q) == {q[i] : i \in 1..Len(q)}

\* s[0].upper() + s[1:] when s[0] is not upper case (s is non-empty)
Capitalize(s) ==
    IF IsUpperChar(s[1]) THEN s ELSE <<ToUpperChar(s[1])>> \o Tail(s)

(***************************************************************************)
(* Optional[List[str]]: None, or a list                                    *)
(***************************************************************************)
NoneValue == [isNone |-> TRUE, list |-> <<>>]
Some(l) == [isNone |-> FALSE, list |-> l]
\* Python truthiness of an Optional[List]
Truthy(o) == ~o.isNone /\ o.list # <<>>

(***************************************************************************)
(* validate_objectives (sme/lo_gen/main.py)                                *)
(***************************************************************************)
action_verbs == {
    <<"u","n","d","e","r","s","t","a","n","d">>,
    <<"e","x","p","l","a","i","n">>,
    <<"d","e","s","c","r","i","b","e">>,
    <<"i","d","e","n","t","i","f","y">>,
    <<"r","e","c","o","g","n","i","z","e">>,
    <<"r","e","c","a","l","l">>,
    <<"c","o","m","p","r","e","h","e","n","d">>,
    <<"i","n","t","e","r","p","r","e","t">>,
    <<"s","u","m","m","a","r","i","z","e">>,
    <<"c","l","a","s","s","i","f","y">>,
    <<"d","i","s","t","i","n","g","u","i","s","h">>,
    <<"a","n","a","l","y","z","e">>,
    <<"c","o","m","p","a","r","e">>,
    <<"c","o","n","t","r","a","s","t">>,
    <<"e","x","a","m","i","n","e">>,
    <<"i","n","v","e","s","t","i","g","a","t","e">>,
    <<"e","x","p","l","o","r","e">>,
    <<"e","v","a","l","u","a","t","e">>,
    <<"a","s","s","e","s","s">>,
    <<"c","r","i","t","i","q","u","e">>,
    <<"j","u","s","t","i","f","y">>,
    <<"d","e","t","e","r","m","i","n","e">>,
    <<"d","e","r","i","v","e">>,
    <<"a","p","p","l","y">>,
    <<"d","e","m","o","n","s","t","r","a","t","e">>,
    <<"i","l","l","u","s","t","r","a","t","e">>,
    <<"r","e","l","a","t","e">>,
    <<"u","s","e">>,
    <<"e","m","p","l","o","y">> }

placeholder_patterns == {
    <<"l","o","1">>,
    <<"l","o","2">>,
    <<"l","o","3">>,
    <<"l","o","4">>,
    <<"l","o","5">>,
    <<"l","o","6">>,
    <<"o","b","j","e","c","t","i","v","e"," ","1">>,
    <<"o","b","j","e","c","t","i","v","e"," ","2">>,
    <<"o","b","j","e","c","t","i","v","e"," ","3">>,
    <<"l","e","a","r","n","i","n","g"," ","o","b","j","e","c","t","i","v","e">>,
    <<"n","e","w"," ","o","b","j","e","c","t","i","v","e">>,
    <<"a","d","d","i","t","i","o","n","a","l"," ","o","b","j","e","c","t","i","v","e">> }

\* obj_clean = obj.strip().rstrip('.')
ObjClean(obj) == RStripDot(Strip(obj))

is_placeholder(obj_lower) == \E p \in placeholder_patterns : Contains(obj_lower, p)

\* 6 <= word_count <= 20 and len(obj_clean) >= 20
WordCountAndLengthOk(obj_clean) ==
    /\ 6 <= Len(Split(obj_clean))
    /\ Len(Split(obj_clean)) <= 20
    /\ Len(obj_clean) >= 20

starts_with_verb(obj_lower) == \E v \in action_verbs : StartsWith(obj_lower, v)

\* the "additional content quality checks": too few spaces or unique words
PoorContentQuality(obj_clean) ==
    \/ CountSpaces(obj_clean) < 5
    \/ Cardinality(Range(Split(Lower(obj_clean)))) < 4

\* one iteration of the loop of validate_objectives: is obj appended to valid?
PassesValidation(obj) ==
    LET obj_clean == ObjClean(obj)
        obj_lower == Lower(obj_clean)
    IN  /\ ~is_placeholder(obj_lower)
        /\ WordCountAndLengthOk(obj_clean)
        /\ starts_with_verb(obj_lower)
        /\ ~PoorContentQuality(obj_clean)

\* validate_objectives: the cleaned objectives that pass, or None if none does
validate_objectives(objectives) ==
    LET kept  == SelectSeq(objectives, PassesValidation)
        valid == [i \in 1..Len(kept) |-> ObjClean(kept[i])]
    IN  IF valid # <<>> THEN Some(valid) ELSE NoneValue

(***************************************************************************)
(* Texts the backend may answer with.  A model text is either              *)
(*   "array": json.dumps(items), a JSON array of strings and nothing else; *)
(*   "prose": free text holding no bracket, no list marker and no          *)
(*            reasoning delimiter;                                         *)
(*   "empty": the empty string (also what a failed call is read as).       *)
(* The items hold none of  " \ [ ]  and no "/think", "<think>" or          *)
(* "N. " marker, so the regular expressions of parse_json_array match the  *)
(* array as a whole or not at all.                                         *)
(***************************************************************************)
\* 'Use big maps for all data'
ObjMaps ==
    <<"U","s","e"," ","b","i","g"," ","m","a","p","s"," ","f","o","r"," ","a","l","l"," ","d","a","t","a">>
\* 'use big maps for all data.'
ObjMapsLower ==
    <<"u","s","e"," ","b","i","g"," ","m","a","p","s"," ","f","o","r"," ","a","l","l"," ","d","a","t","a",".">>
\* 'Use big maps for all sets'
ObjSets ==
    <<"U","s","e"," ","b","i","g"," ","m","a","p","s"," ","f","o","r"," ","a","l","l"," ","s","e","t","s">>
\* 'Use a b c d efghijk .'
ObjPadded ==
    <<"U","s","e"," ","a"," ","b"," ","c"," ","d"," ","e","f","g","h","i","j","k"," ",".">>
\* 'LO1'
ObjPlaceholder ==
    <<"L","O","1">>
\* 'Maps are big for all data'
ObjNoVerb ==
    <<"M","a","p","s"," ","a","r","e"," ","b","i","g"," ","f","o","r"," ","a","l","l"," ","d","a","t","a">>
ArrayText(items) == [form |-> "array", items |-> items]
ProseText == [form |-> "prose", items |-> <<>>]
EmptyText == [form |-> "empty", items |-> <<>>]

\* Texts with a reasoning part.  `numbered` are the lines of a numbered list
\* ('1. <line>.', '2. <line>.', ...), each on a line of its own; they hold
\* no '.', no bracket and no delimiter.  After them comes
\*   "think":        '/think ' and json.dumps(items);
\*   "closed_think": '<think>plain reasoning</think> ' and json.dumps(items);
\*   "announced":    'Output the JSON array now: ' and json.dumps(items);
\*   "numbered":     nothing.
ThinkText(numbered, items) == [form |-> "think", items |-> items, numbered |-> numbered]
ClosedThinkText(numbered, items) ==
    [form |-> "closed_think", items |-> items, numbered |-> numbered]
AnnouncedText(numbered, items) ==
    [form |-> "announced", items |-> items, numbered |-> numbered]
NumberedText(numbered) == [form |-> "numbered", items |-> <<>>, numbered |-> numbered]

\* the texts the backend answers with in this model
Texts == {
    ArrayText(<<ObjMaps, ObjSets>>),
    ArrayText(<<ObjMapsLower>>),
    ArrayText(<<ObjPadded>>),
    ArrayText(<<ObjPlaceholder, ObjMaps>>),
    ArrayText(<<ObjNoVerb, ObjSets>>),
    ProseText }

(***************************************************************************)
(* parse_json_array (sme/lo_gen/main.py)                                   *)
(***************************************************************************)
\* obj.strip().lower().startswith(('lo', 'objective')) or len(obj.strip().split()) < 6
LooksLikePlaceholder(obj) ==
    \/ StartsWith(Lower(Strip(obj)), <<"l","o">>)
    \/ StartsWith(Lower(Strip(obj)), <<"o","b","j","e","c","t","i","v","e">>)
    \/ Len(Split(Strip(obj))) < 6

AnyLooksLikePlaceholder(parsed) == \E i \in 1..Len(parsed) : LooksLikePlaceholder(parsed[i])

\* a strategy either returns a value (returned) or falls through to the next
FallThrough == [returned |-> FALSE, value |-> NoneValue]
Return(v) == [returned |-> TRUE, value |-> v]

\* the candidate handling shared by the quick strategy and strategy 2:
\* a non-empty list without placeholder-looking entry is validated and
\* returned if validation leaves anything
TryCandidate(parsed) ==
    IF Len(parsed) > 0 /\ ~AnyLooksLikePlaceholder(parsed)
    THEN LET valid == validate_objectives(parsed)
         IN  IF Truthy(valid) THEN Return(valid) ELSE FallThrough
    ELSE FallThrough

\* the text holds one JSON array, json.dumps(text.items)
HasArray(text) == text.form \in {"array", "think", "closed_think", "announced"}

\* '/think' in text.lower(): also true of a text holding '</think>'
HasThinkToken(text) == text.form \in {"think", "closed_think"}

\* the lines of the text's numbered list
NumberedLines(text) ==
    IF text.form \in {"think", "closed_think", "announced", "numbered"}
    THEN text.numbered ELSE <<>>

\* quick strategy: the first well-formed JSON array of one or more strings
QuickStrategy(text) ==
    IF HasArray(text) /\ text.items # <<>> THEN TryCandidate(text.items) ELSE FallThrough

\* strategy 1: the text after the last '/think' is the array ('/think ')
\* or holds it ('</think> '); a list without placeholder-looking entry is
\* validated and the outcome returned, None included
ThinkStrategy(text) ==
    IF HasThinkToken(text) /\ ~AnyLooksLikePlaceholder(text.items)
    THEN Return(validate_objectives(text.items))
    ELSE FallThrough

\* strategy 2: every JSON-array-shaped substring, last first
JsonAnywhereStrategy(text) ==
    IF HasArray(text) THEN TryCandidate(text.items) ELSE FallThrough

\* r'\d+\.\s+([A-Z][^.]+\.?)' matches a numbered line that starts with a
\* capital letter; the group is the line and its final '.'
StartsUpper(line) == IsUpperChar(line[1])
KeepsMatch(m) == ~LooksLikePlaceholder(m)

\* strategy 3: the numbered lines, filtered and validated
NumberedStrategy(text) ==
    LET capitalised   == SelectSeq(NumberedLines(text), StartsUpper)
        matches       == [i \in 1..Len(capitalised) |-> Append(capitalised[i], ".")]
        valid_matches == SelectSeq(matches, KeepsMatch)
        valid         == validate_objectives(valid_matches)
    IN  IF valid_matches # <<>> /\ Truthy(valid) THEN Return(valid) ELSE FallThrough

\* strategy 4: the text after '</think>' or 'Output the JSON array now:'
DelimiterStrategy(text) ==
    IF /\ text.form \in {"closed_think", "announced"}
       /\ ~AnyLooksLikePlaceholder(text.items)
       /\ Truthy(validate_objectives(text.items))
    THEN Return(validate_objectives(text.items))
    ELSE FallThrough

parse_json_array(text) ==
    IF QuickStrategy(text).returned THEN QuickStrategy(text).value
    ELSE IF ThinkStrategy(text).returned THEN ThinkStrategy(text).value
    ELSE IF JsonAnywhereStrategy(text).returned THEN JsonAnywhereStrategy(text).value
    ELSE IF NumberedStrategy(text).returned THEN NumberedStrategy(text).value
    ELSE IF DelimiterStrategy(text).returned THEN DelimiterStrategy(text).value
    ELSE NoneValue

\* the item lists and the numbered lists of the texts given to the parser
ParserItems == {
    <<>>,
    <<ObjMaps>>,
    <<ObjNoVerb>>,
    <<ObjMaps, ObjMaps>>,
    <<ObjMaps, ObjSets>>,
    <<ObjPlaceholder, ObjMaps>>,
    <<ObjMapsLower>> }

ParserNumbered == {
    <<>>,
    <<ObjSets>>,
    <<ObjNoVerb>>,
    <<ObjPlaceholder, ObjMaps>> }

ParserTexts ==
    {ArrayText(items) : items \in ParserItems \ {<<>>}}
    \cup {ThinkText(numbered, items) : numbered \in ParserNumbered, items \in ParserItems}
    \cup {ClosedThinkText(numbered, items) :
             numbered \in ParserNumbered, items \in ParserItems}
    \cup {AnnouncedText(numbered, items) :
             numbered \in ParserNumbered, items \in ParserItems}
    \cup {NumberedText(numbered) : numbered \in ParserNumbered \ {<<>>}}
    \cup {ProseText, EmptyText}

\* parse_json_array_safe: parse_json_array, None on an exception
parse_json_array_safe(text) == parse_json_array(text)

(***************************************************************************)
(* Inference client (sme/lo_gen/vllm_client.py)                            *)
(***************************************************************************)
RETRIES == 2

\* what one HTTP request can end in
RequestOutcomes == {"ok", "timeout", "status_error", "exception"}

\* _post: outcomes[k] is how the k-th request ends should it be issued:
\* a 200 response ("ok"), httpx.TimeoutException, httpx.HTTPStatusError or
\* any other exception.  A timeout is retried while attempt < RETRIES;
\* anything else ends the call.
RECURSIVE PostFrom(_, _)
PostFrom(outcomes, attempt) ==
    IF attempt > RETRIES
    THEN [ok |-> FALSE, requests |-> attempt, error |-> "Max retries exceeded"]
    ELSE LET o == outcomes[attempt + 1]
         IN  IF o = "ok"
             THEN [ok |-> TRUE, requests |-> attempt + 1, error |-> "none"]
             ELSE IF o = "timeout"
                  THEN IF attempt < RETRIES
                       THEN PostFrom(outcomes, attempt + 1)
                       ELSE [ok |-> FALSE, requests |-> attempt + 1,
                             error |-> "Request timeout"]
                  ELSE [ok |-> FALSE, requests |-> attempt + 1,
                        error |-> IF o = "status_error" THEN "HTTP error" ELSE "exception"]

\* _post retrying after every failed request, not only after a timeout
_post_retrying_all(outcomes) ==
    LET oks == {i \in 1..(RETRIES + 1) : outcomes[i] = "ok"}
    IN  IF oks = {}
        THEN [ok |-> FALSE, requests |-> RETRIES + 1, error |-> "Request timeout"]
        ELSE [ok |-> TRUE, requests |-> CHOOSE i \in oks : \A j \in oks : i <= j,
              error |-> "none"]

_post(outcomes) == PostFrom(outcomes, 0)

\* The body of a 200 response: a chat completion carrying a text, or a JSON
\* value that is not an object, on which data.get raises AttributeError.
Completion(text) == [kind |-> "completion", text |-> text]
NotAnObject == [kind |-> "not_object", text |-> EmptyText]

\* _extract_text: '' for a failed call, the content of a completion, and an
\* exception (raises) for a body that is not an object
_extract_text(res, body) ==
    IF ~res.ok THEN [raises |-> FALSE, text |-> EmptyText]
    ELSE IF body.kind = "completion" THEN [raises |-> FALSE, text |-> body.text]
    ELSE [raises |-> TRUE, text |-> EmptyText]

\* infer_4b with _post letting an HTTP status error escape instead of
\* returning ok = False
infer_4b_reraising(call) ==
    LET res == _post(call.http)
        ext == _extract_text(res, call.body)
    IN  [ok |-> res.ok, text |-> ext.text,
         raises |-> ext.raises \/ res.error = "HTTP error",
         requests |-> res.requests, error |-> res.error]

\* infer_4b: {ok, text}; raises when _extract_text does
infer_4b(call) ==
    LET res == _post(call.http)
        ext == _extract_text(res, call.body)
    IN  [ok |-> res.ok, text |-> ext.text, raises |-> ext.raises,
         requests |-> res.requests, error |-> res.error]

\* the backend behaviours one inference call can meet
BackendCalls ==
    {[http |-> <<"ok", "ok", "ok">>, body |-> Completion(t)] : t \in Texts}
    \cup {[http |-> <<"timeout", "ok", "ok">>, body |-> Completion(ArrayText(<<ObjPadded>>))],
          [http |-> <<"timeout", "timeout", "timeout">>, body |-> Completion(ProseText)],
          [http |-> <<"status_error", "ok", "ok">>, body |-> Completion(ArrayText(<<ObjPadded>>))],
          [http |-> <<"ok", "ok", "ok">>, body |-> NotAnObject]}

\* infer_4b and the parse of its text, tabulated over the backend behaviours
InferenceOf == [call \in BackendCalls |-> infer_4b(call)]

\* what the backend did on a call: the first request that did not time out
\* was answered with an HTTP error status ("status_error"), failed otherwise
\* ("exception"), or was answered with 200
\* ("ok", "malformed" when the body is not an object), or every request
\* timed out ("timeout")
RECURSIVE BehaviourFrom(_, _)
BehaviourFrom(call, k) ==
    IF k > Len(call.http) THEN "timeout"
    ELSE IF call.http[k] = "timeout" THEN BehaviourFrom(call, k + 1)
    ELSE IF call.http[k] = "status_error" THEN "status_error"
    ELSE IF call.http[k] = "exception" THEN "exception"
    ELSE IF call.body.kind = "completion" THEN "ok" ELSE "malformed"
BackendBehaviour(call) == BehaviourFrom(call, 1)

(***************************************************************************)
(* generate_los_for_modules (sme/lo_gen/main.py)                           *)
(***************************************************************************)
max_main_attempts == 10
max_additional_attempts == 15

\* 'Optics'
ModOptics == <<"O","p","t","i","c","s">>
\* the module lists a run is started with; the first module of the second list
\* is titled like an objective, which the main loop's duplicate test reads
ModuleLists == {<<ModOptics>>, <<ObjMaps, ModOptics>>}

VARIABLES
    lo_pc,                \* "main" | "diversify" | "store" | "done" | "raised"
    lo_exception,         \* the exception that ended the run, "none" otherwise
    n_los,                \* target count per module
    modules,              \* the module titles
    mi,                   \* index of the module being processed
    normalized,           \* accepted objectives of the current module, in order
    seen_objectives,      \* the set of accepted objectives
    main_attempt,
    additional_attempts,
    resp_bound,           \* is the local variable resp assigned?
    results,              \* results[k]: learning_objectives stored for module k
    main_calls,           \* infer_4b calls made in the main loop for this module
    div_calls,            \* infer_4b calls made in the diversify loop for this module
    accepted_phase,       \* accepted_phase[k]: the loop that accepted normalized[k]
    last_outcome          \* what the backend did on the module's latest call, "none" before

lo_vars == <<lo_pc, lo_exception, n_los, modules, mi, normalized, seen_objectives,
             main_attempt, additional_attempts, resp_bound, results, main_calls,
             div_calls, accepted_phase, last_outcome>>

VARIABLES
    quiz_pc,              \* the node to run next, "END", "returned" or "raised"
    num_questions,        \* cfg.quiz_gen.num_questions
    question_types_ok,    \* does cfg.quiz_gen.question_types exist?
    generated_questions,  \* state["generated_questions"]
    final_quiz,           \* state["final_quiz"]
    quiz_error,           \* state["error"], "None" when unset
    quiz_file,            \* the quiz written to the output file, EmptyQuiz if none
    quiz_raised,          \* the message run_quiz_generation_workflow raised with
    quiz_response         \* what the chat-completions call produced, NoResponse before

quiz_vars == <<quiz_pc, num_questions, question_types_ok, generated_questions,
               final_quiz, quiz_error, quiz_file, quiz_raised, quiz_response>>

(***************************************************************************)
(* Vector-store construction: /upload-file and /createvs (sme/apiserver.py)*)
(* and create_vs (sme/chat/rag.py)                                         *)
(***************************************************************************)
Courses == {"c1", "c2"}
\* the files a course directory may hold
Files == {"notes.txt", "more.md", "corrupt.pdf", "scan.docx"}

\* get_supported_file_types: the loaders tried for a file, by extension
LoadersOf(f) ==
    IF f = "corrupt.pdf" THEN <<"PyPDFLoader", "PDFPlumberLoader", "UnstructuredPDFLoader">>
    ELSE IF f = "scan.docx" THEN <<"UnstructuredWordDocumentLoader">>
    ELSE IF f = "more.md" THEN <<"UnstructuredMarkdownLoader">>
    ELSE <<"TextLoader">>

\* what loader.load() does on a file: it raises, returns documents without
\* content, or returns documents.  corrupt.pdf defeats every loader, one of
\* them by extracting nothing; scan.docx loads.
LoaderResult(f, loader) ==
    IF f = "corrupt.pdf"
    THEN (IF loader = "PDFPlumberLoader" THEN "no_content" ELSE "raises")
    ELSE "docs"

\* load_single_file: the documents of the first loader that extracts
\* content, [] when every loader raises or extracts nothing
RECURSIVE TryLoaders(_, _, _)
TryLoaders(f, loaders, k) ==
    IF k > Len(loaders) THEN {}
    ELSE IF LoaderResult(f, loaders[k]) = "docs" THEN {f}
    ELSE TryLoaders(f, loaders, k + 1)
load_single_file(f) == TryLoaders(f, LoadersOf(f), 1)

Loadable(f) == load_single_file(f) # {}

\* smart_document_chunking of one document: both splitters fail on the
\* document of scan.docx, which therefore contributes no chunk
Chunkable(f) == f # "scan.docx"

NoIndex == [exists |-> FALSE, files |-> {}]
NoWork == [loads |-> 0, embeds |-> 0, saves |-> 0]

VARIABLES
    docs,                 \* docs[c]: the files under data/docs/<c>
    index,                \* index[c]: the persisted index under vector_store/<c>
    work,                 \* work[c]: document loads, embedding runs and saves done for c
    ok_builds,            \* ok_builds[c]: /createvs requests for c answered 200
    build_calls,          \* /createvs requests issued so far
    last_req              \* what the last request to the service did

vs_vars == <<docs, index, work, ok_builds, build_calls, last_req>>

\* the record kept of a request: its handler and course, how it ended, the
\* index queries and inference calls it made, and the files it failed to load
NoRequest ==
    [kind |-> "none", course |-> "none", outcome |-> "none",
     retrievals |-> 0, inference_calls |-> 0, failed_files |-> {}]
Served(kind, c, outcome, retrievals, inference_calls, failed) ==
    [kind |-> kind, course |-> c, outcome |-> outcome,
     retrievals |-> retrievals, inference_calls |-> inference_calls,
     failed_files |-> failed]

(***************************************************************************)
(* A client of the blocking inference call (sme/lo_gen/vllm_client.py)     *)
(***************************************************************************)
\* every way the RETRIES + 1 requests of one call can end, with a response
\* body that is a completion or not an object
ClientCalls ==
    {[http |-> h, body |-> body] :
        h \in [1..(RETRIES + 1) -> RequestOutcomes],
        body \in {Completion(ArrayText(<<ObjMaps>>)), Completion(EmptyText), NotAnObject}}

NoCall == [http |-> <<>>, body |-> NotAnObject]
NoResult ==
    [ok |-> FALSE, text |-> EmptyText, raises |-> FALSE, requests |-> 0, error |-> "none"]

VARIABLES
    client_call,          \* the backend behaviour the latest infer_4b call met
    client_result         \* what that call returned

client_vars == <<client_call, client_result>>

(***************************************************************************)
(* infer_4b_stream (sme/lo_gen/vllm_client.py): the lines of the response  *)
(* are either raw text, or a field name followed by a JSON object (an      *)
(* OpenAI-compatible chat-completion chunk)                                *)
(***************************************************************************)
MaxStreamLines == 4

RawLine(text) == [form |-> "raw", head |-> text, chunk |-> "none", content |-> ""]
\* head + '{"choices": [{"delta": {"content": content}}]}'
DeltaLine(head, content) == [form |-> "json", head |-> head, chunk |-> "delta", content |-> content]
\* head + '{"choices": []}'
NoChoicesLine(head) == [form |-> "json", head |-> head, chunk |-> "no_choices", content |-> ""]

\* 'data: '
DataField == <<"d","a","t","a",":"," ">>
\* 'data:'
DataFieldNoSpace == <<"d","a","t","a",":">>
\* '[DONE]'
DoneSentinel == <<"[","D","O","N","E","]">>

\* the lines the backend sends in this model
StreamLines == {
    DeltaLine(DataField, "Hel"),
    DeltaLine(DataField, "lo"),
    DeltaLine(DataField, ""),
    DeltaLine(DataFieldNoSpace, "x"),
    NoChoicesLine(DataField),
    RawLine(<<"d","a","t","a",":"," ","[","D","O","N","E","]">>),
    RawLine(<<"d","a","t","a",":"," "," ","[","D","O","N","E","]"," ">>),
    RawLine(<<"d","a","t","a",":","[","D","O","N","E","]">>),
    RawLine(<<"d","a","t","a",":"," ","o","o","p","s">>),
    RawLine(<<":"," ","p","i","n","g">>) }

\* line.startswith('data: ')
IsDataLine(line) == StartsWith(line.head, DataField)

\* data_str = line[6:] of a raw line
DataStr(line) == SubSeq(line.head, Len(DataField) + 1, Len(line.head))

\* one iteration of `async for line in response.aiter_lines()` that treats
\* a data line that is not JSON as the end of the stream
stream_iteration_strict(line, yielded) ==
    IF ~IsDataLine(line) THEN [yielded |-> yielded, stop |-> FALSE]
    ELSE IF line.form = "raw"
         THEN [yielded |-> yielded, stop |-> TRUE]
         ELSE IF line.chunk = "delta" /\ line.content # ""
              THEN [yielded |-> Append(yielded, line.content), stop |-> FALSE]
              ELSE [yielded |-> yielded, stop |-> FALSE]

\* one iteration of `async for line in response.aiter_lines()`: the
\* fragments yielded so far and whether the loop breaks
stream_iteration(line, yielded) ==
    IF ~IsDataLine(line) THEN [yielded |-> yielded, stop |-> FALSE]
    ELSE IF line.form = "raw"
         THEN IF Strip(DataStr(line)) = DoneSentinel
              THEN [yielded |-> yielded, stop |-> TRUE]      \* break
              ELSE [yielded |-> yielded, stop |-> FALSE]     \* JSONDecodeError: continue
         ELSE IF line.chunk = "delta" /\ line.content # ""
              THEN [yielded |-> Append(yielded, line.content), stop |-> FALSE]
              ELSE [yielded |-> yielded, stop |-> FALSE]

VARIABLES
    stream_pc,            \* "open" | "reading" | "ended" (break) | "closed" | "raised"
    stream_sent,          \* the lines the backend has sent, in order
    stream_yielded        \* the fragments infer_4b_stream has yielded, in order

stream_vars == <<stream_pc, stream_sent, stream_yielded>>

(***************************************************************************)
(* Concurrent generation requests (sme/apiserver.py): generate_los and     *)
(* generate_module are plain `def` handlers, which the server runs on      *)
(* worker threads, and all of them use the one config object app.state.cfg *)
(***************************************************************************)
Threads == {"t1", "t2"}

Endpoints == {"generate-los", "generate-module"}

NoReq == [endpoint |-> "none", courseID |-> "none"]

VARIABLES
    cfg_lo_gen_course_id,       \* cfg.lo_gen.course_id of app.state.cfg
    cfg_module_gen_course_id,   \* cfg.module_gen.course_id of app.state.cfg
    conc_req,                   \* per thread: the request it is handling
    conc_pc,                    \* per thread: "idle" | "set_lo" | "set_module"
                                \*   | "load" | "search" | "done"
    conc_reads                  \* per thread: the course ids its request has
                                \*   read from the config for retrieval

conc_vars == <<cfg_lo_gen_course_id, cfg_module_gen_course_id, conc_req, conc_pc,
               conc_reads>>

(***************************************************************************)
(* parse_json_array applied to one model text                              *)
(***************************************************************************)
VARIABLES
    parse_text,           \* the text given to parse_json_array
    parse_done,           \* has parse_json_array returned?
    parse_result          \* what it returned

parse_vars == <<parse_text, parse_done, parse_result>>

(***************************************************************************)
(* generate_module_content (sme/module_gen/main.py)                        *)
(***************************************************************************)
MaxObjectives == 2

\* the learning objectives of a request: 'o1' is a sentence of 40
\* characters, 'o2' a text of 20,000 characters
Objectives == {"o1", "o2"}
ObjectiveLen == [o \in Objectives |-> IF o = "o1" THEN 40 ELSE 20000]

ObjectiveLists == UNION {[1..n -> Objectives] : n \in 0..MaxObjectives}

\* len() of what the configured prompt template, the module name and the
\* formatted preferences add to the prompt
TemplateLens == {0, 1500}

\* the keys of context_map, in insertion order: each objective once
RECURSIVE context_keys(_)
context_keys(objectives) ==
    IF objectives = <<>> THEN <<>>
    ELSE LET r == context_keys(SubSeq(objectives, 1, Len(objectives) - 1))
             o == objectives[Len(objectives)]
         IN  IF o \in Range(r) THEN r ELSE Append(r, o)

\* '</think>'
ThinkClose == <<"<","/","t","h","i","n","k",">">>
\* '<think>hm'
Reasoning == <<"<","t","h","i","n","k",">","h","m">>
Answer(n) == [i \in 1..n |-> "a"]

\* the texts the backend answers a module-generation call with
ModuleTexts == {
    Answer(60),
    Reasoning \o ThinkClose \o <<"\n">> \o Answer(51),
    Reasoning \o ThinkClose \o <<"\n">> \o Answer(50),
    Reasoning \o <<"<","/","T","H","I","N","K",">">> \o Answer(51),
    Reasoning \o Answer(60) }

ModuleCalls ==
    {[http |-> <<"ok", "ok", "ok">>, body |-> Completion(t)] : t \in ModuleTexts}
    \cup {[http |-> <<"status_error", "ok", "ok">>, body |-> Completion(Answer(60))],
          [http |-> <<"ok", "ok", "ok">>, body |-> [kind |-> "not_object", text |-> <<>>]]}

\* '</think>' in text.lower()
HasThinkClose(text) == Contains(Lower(text), ThinkClose)

\* re.split(r'</think>', text, flags=re.IGNORECASE)[-1]
AfterLastThinkClose(text) ==
    LET at == {i \in 1..(Len(text) - Len(ThinkClose) + 1) :
                  Lower(SubSeq(text, i, i + Len(ThinkClose) - 1)) = ThinkClose}
        last == CHOOSE i \in at : \A j \in at : j <= i
    IN  SubSeq(text, last + Len(ThinkClose), Len(text))

\* result.get('text', '')
ModuleResultText(result) == IF result.ok THEN result.text ELSE <<>>

\* the clean-up of a summary in summarize_chunks_for_objective
clean_summary(text) ==
    LET summary == Strip(text)
    IN  IF HasThinkClose(summary)
        THEN LET extracted == Strip(AfterLastThinkClose(summary))
             IN  IF Len(extracted) > 50 THEN extracted ELSE summary
        ELSE summary

\* the clean-up of the response in generate_module_content
clean_content(response_text) ==
    LET clean_text == Strip(response_text)
    IN  IF HasThinkClose(clean_text)
        THEN Strip(AfterLastThinkClose(clean_text))
        ELSE clean_text

\* a summarization that goes on after a failed call, with an empty summary
SummarizationFailsNever(result) == FALSE

\* if not result.get('ok'): raise Exception("LLM call failed")
SummarizationFails(result) == ~result.ok

\* len("\n".join(f"{i+1}. {obj}" for ...)) for fewer than ten objectives
RECURSIVE ObjectivesTextLen(_)
ObjectivesTextLen(objectives) ==
    IF objectives = <<>> THEN 0
    ELSE LET n == Len(objectives)
         IN  ObjectivesTextLen(SubSeq(objectives, 1, n - 1))
             + (IF n > 1 THEN 1 ELSE 0) + 3 + ObjectiveLen[objectives[n]]

\* len(reference_context): f"[Reference {i}] {obj}\n{summary}\n\n" per summary
RECURSIVE ReferenceContextLen(_, _)
ReferenceContextLen(keys, summaries) ==
    IF summaries = <<>> THEN 0
    ELSE LET n == Len(summaries)
         IN  ReferenceContextLen(keys, SubSeq(summaries, 1, n - 1))
             + 14 + ObjectiveLen[keys[n]] + 1 + Len(summaries[n]) + 2

\* 8192 - len(prompt) // 4 - 100
available_output_tokens(prompt_len) == 8192 - (prompt_len \div 4) - 100

NoContent == <<"None">>

VARIABLES
    mg_pc,                \* "start" | "summarize" | "returned" | "raised"
    mg_objectives,        \* learning_objectives
    mg_index,             \* the persisted index of the course
    mg_template_len,      \* length of the prompt apart from objectives and references
    mg_context,           \* context_map: has the objective any chunk?
    mg_summaries,         \* objective_summaries, in the order of context_map
    mg_calls,             \* the inference calls made so far
    mg_processed,         \* the responses cleaned up so far, with the outcome
    mg_max_tokens,        \* <<max_tokens>> of the generation call, once made
    mg_content,           \* markdown_content of the result
    mg_exception          \* what generate_module_content raised

mg_vars == <<mg_pc, mg_objectives, mg_index, mg_template_len, mg_context, mg_summaries,
             mg_calls, mg_processed, mg_max_tokens, mg_content, mg_exception>>

(***************************************************************************)
(* smart_document_chunking (sme/chat/rag.py) on one document.  The         *)
(* document is the sequence of the spans into which the semantic splitter  *)
(* divides it, each "small" or "oversized" (longer than                    *)
(* SEMANTIC_CHUNK_SIZE); an oversized span gives two character chunks.     *)
(***************************************************************************)
MaxSemanticChunks == 3

SpanLists == UNION {[1..n -> {"small", "oversized"}] : n \in 1..MaxSemanticChunks}

\* where the semantic path raises: nowhere, in semantic_splitter, or in
\* char_splitter while it sub-splits the oversized span `at`
NoFault == [kind |-> "none", at |-> 0]
Faults(spans) ==
    {NoFault, [kind |-> "splitter", at |-> 0]}
    \cup {[kind |-> "sub_split", at |-> k] : k \in {i \in 1..Len(spans) : spans[i] = "oversized"}}

ChunkInputs ==
    UNION {{[spans |-> spans, fault |-> fault, fallback_raises |-> fr] :
                fault \in Faults(spans), fr \in BOOLEAN} : spans \in SpanLists}

Chunk(method, span, part) == [chunk_method |-> method, span |-> span, part |-> part]

\* the chunks the body of the loop over semantic_chunks appends for span i
SemanticChunksOf(spans, i) ==
    IF spans[i] = "oversized"
    THEN <<Chunk("semantic_then_character", i, 1), Chunk("semantic_then_character", i, 2)>>
    ELSE <<Chunk("semantic_only", i, 0)>>

\* doc_chunks after the loop over semantic_chunks has handled spans 1..upto
RECURSIVE SemanticChunksUpTo(_, _)
SemanticChunksUpTo(spans, upto) ==
    IF upto = 0 THEN <<>>
    ELSE SemanticChunksUpTo(spans, upto - 1) \o SemanticChunksOf(spans, upto)

\* char_splitter.split_documents([doc]) on the whole document
RECURSIVE CharacterChunksUpTo(_, _)
CharacterChunksUpTo(spans, upto) ==
    IF upto = 0 THEN <<>>
    ELSE CharacterChunksUpTo(spans, upto - 1)
         \o (IF spans[upto] = "oversized"
             THEN <<Chunk("character_fallback", upto, 1), Chunk("character_fallback", upto, 2)>>
             ELSE <<Chunk("character_fallback", upto, 0)>>)

\* the body of the loop over documents: what all_chunks is extended with
chunk_document(doc) ==
    IF doc.fault.kind = "none" THEN SemanticChunksUpTo(doc.spans, Len(doc.spans))
    ELSE LET doc_chunks == IF doc.fault.kind = "splitter" THEN <<>>
                           ELSE SemanticChunksUpTo(doc.spans, doc.fault.at - 1)
         IN  IF doc.fallback_raises
             THEN <<>>                                \* continue: nothing is extended
             ELSE doc_chunks \o CharacterChunksUpTo(doc.spans, Len(doc.spans))

VARIABLES
    chunk_doc,            \* the document being chunked
    chunk_done,           \* has the loop body finished for it?
    chunk_out             \* the chunks emitted for it

chunk_vars == <<chunk_doc, chunk_done, chunk_out>>

(***************************************************************************)
(* Instructor service (instructor/routes.py, instructor/sme_client.py) for *)
(* one course.  upload_course_files_to_sme is an `async def` handler and   *)
(* create_vector_store_async a coroutine without any await: both run on    *)
(* the event loop, and the blocking SME call of the coroutine holds the    *)
(* loop until it returns.  create_course_vector_store and                  *)
(* generate_learning_objectives are plain `def` handlers, which the loop   *)
(* hands to worker threads.                                                *)
(***************************************************************************)
MaxUploads == 2
MaxManual == 2

\* the file sets of the upload requests
UploadSets == {{"notes.txt"}, {"more.md"}, {"corrupt.pdf"}}

NoTask == [trigger |-> "none", files |-> {}]

VARIABLES
    in_status,            \* status of the course in course_vector_stores, or "absent"
    in_sme_docs,          \* the course's files at the SME service
    in_sme_index,         \* the course's persisted index at the SME service
    in_pending,           \* creation tasks created and not yet started
    in_task,              \* the creation task whose SME call is in flight
    in_manual,            \* manual creation requests whose SME call is in flight
    in_uploads,           \* upload requests handled so far
    in_lo_pc,             \* the generate-los request: "idle" | "passed"
    in_lo_called_at,      \* the status when SME objective generation was last called
    in_lo_rejected,       \* was the last generate-los request refused before SME?
    in_recreated,         \* the files of the last finished recreation, if any
    in_last_outcome       \* "none" | "ok" | "error": how the last task's SME call ended

in_vars == <<in_status, in_sme_docs, in_sme_index, in_pending, in_task, in_manual,
             in_uploads, in_lo_pc, in_lo_called_at, in_lo_rejected, in_recreated,
             in_last_outcome>>

(***************************************************************************)
(* The SME handlers as HTTP endpoints (apiserver.py): the status code of   *)
(* each response, and the configuration object app.state.cfg that every    *)
(* request shares.  An optional request field is <<>> when omitted and     *)
(* <<v>> when given.                                                       *)
(***************************************************************************)
\* cfg.quiz_gen as loaded at startup, as far as the overrides go
StartupCfg ==
    [course_id |-> <<>>, retrieval_top_k |-> <<>>, questions_per_chunk |-> <<>>,
     batch_size |-> <<>>, questions_per_batch |-> <<>>, parallel_processing |-> <<>>,
     max_workers |-> <<>>]

\* QuizGenerationRequest
QuizRequestShapes ==
    [content_empty : BOOLEAN,
     courseID : {<<>>, <<"">>, <<"c1">>, <<"c2">>},
     retrieval_top_k : {<<>>, <<5>>},
     questions_per_chunk : {<<>>, <<2>>},
     batch_size : {<<>>, <<4>>},
     questions_per_batch : {<<>>, <<6>>},
     parallel_processing : {<<>>, <<TRUE>>},
     max_workers : {<<>>, <<8>>}]

\* the batching and performance overrides of a QuizGenerationRequest
BatchingFields ==
    {"questions_per_chunk", "batch_size", "questions_per_batch", "parallel_processing",
     "max_workers"}

\* the requests sent: with at most one batching override per request
QuizRequests ==
    {req \in QuizRequestShapes :
        Cardinality({f \in BatchingFields : req[f] # <<>>}) <= 1}

\* ChatRequest
ChatRequests == [courseid : {"", "c1", "c2"}, prompt_empty : BOOLEAN]

\* `x if req.x is not None else cfg.x`
override(given, current) == IF given # <<>> THEN given ELSE current

\* the overrides generate_quiz writes into cfg.quiz_gen
apply_overrides(cfg, req) ==
    [course_id           |-> IF req.courseID # <<>> /\ req.courseID[1] # ""
                             THEN req.courseID ELSE cfg.course_id,
     retrieval_top_k     |-> override(req.retrieval_top_k, cfg.retrieval_top_k),
     questions_per_chunk |-> override(req.questions_per_chunk, cfg.questions_per_chunk),
     batch_size          |-> override(req.batch_size, cfg.batch_size),
     questions_per_batch |-> override(req.questions_per_batch, cfg.questions_per_batch),
     parallel_processing |-> override(req.parallel_processing, cfg.parallel_processing),
     max_workers         |-> override(req.max_workers, cfg.max_workers)]

\* what the quiz workflow reads of cfg.quiz_gen: the course whose index
\* load_vector_store opens ("" for the shared path) and the retrieval depth
quiz_reads(cfg) ==
    [course_id       |-> IF cfg.course_id = <<>> THEN "" ELSE cfg.course_id[1],
     retrieval_top_k |-> IF cfg.retrieval_top_k = <<>> THEN 3 ELSE cfg.retrieval_top_k[1]]

NoReads == [course_id |-> "", retrieval_top_k |-> 0]

\* the response of a handler whose body returned (raised = 0) or raised an
\* HTTPException with status `raised` or another exception (raised = 500):
\* `except Exception` turns whatever is raised into HTTPException(500)
Response(handler, raised, invoked, used, fresh) ==
    [handler |-> handler,
     status  |-> IF raised = 0 THEN 200 ELSE 500,
     raised  |-> raised,
     invoked |-> invoked,
     used    |-> used,
     fresh   |-> fresh]

NoHttpResponse == Response("none", 0, FALSE, NoReads, NoReads)

VARIABLES
    api_cfg,              \* app.state.cfg.quiz_gen
    api_docs,             \* the courses with documents under data/docs
    api_index,            \* the courses with a saved vector store
    api_response          \* the last response

api_vars == <<api_cfg, api_docs, api_index, api_response>>

\* what the steps of one component leave alone: the other components' state
LOFrame == UNCHANGED <<quiz_vars, vs_vars, client_vars, stream_vars, conc_vars, parse_vars, mg_vars, chunk_vars, in_vars, api_vars>>
QuizFrame == UNCHANGED <<lo_vars, vs_vars, client_vars, stream_vars, conc_vars, parse_vars, mg_vars, chunk_vars, in_vars, api_vars>>
VSFrame == UNCHANGED <<lo_vars, quiz_vars, client_vars, stream_vars, conc_vars, parse_vars, mg_vars, chunk_vars, in_vars, api_vars>>
ClientFrame == UNCHANGED <<lo_vars, quiz_vars, vs_vars, stream_vars, conc_vars, parse_vars, mg_vars, chunk_vars, in_vars, api_vars>>
StreamFrame == UNCHANGED <<lo_vars, quiz_vars, vs_vars, client_vars, conc_vars, parse_vars, mg_vars, chunk_vars, in_vars, api_vars>>
ConcFrame == UNCHANGED <<lo_vars, quiz_vars, vs_vars, client_vars, stream_vars, parse_vars, mg_vars, chunk_vars, in_vars, api_vars>>
ParseFrame == UNCHANGED <<lo_vars, quiz_vars, vs_vars, client_vars, stream_vars, conc_vars, mg_vars, chunk_vars, in_vars, api_vars>>
ModuleFrame == UNCHANGED <<lo_vars, quiz_vars, vs_vars, client_vars, stream_vars, conc_vars, parse_vars, chunk_vars, in_vars, api_vars>>
ChunkFrame == UNCHANGED <<lo_vars, quiz_vars, vs_vars, client_vars, stream_vars, conc_vars, parse_vars, mg_vars, in_vars, api_vars>>
InstructorFrame == UNCHANGED <<lo_vars, quiz_vars, vs_vars, client_vars, stream_vars, conc_vars, parse_vars, mg_vars, chunk_vars, api_vars>>
ApiFrame == UNCHANGED <<lo_vars, quiz_vars, vs_vars, client_vars, stream_vars, conc_vars, parse_vars, mg_vars, chunk_vars, in_vars>>

\* resp = result.get('text', '') if result.get('ok') else ''
ResponseText(result) == IF result.ok THEN result.text ELSE EmptyText

\* parse_json_array_safe(resp), tabulated over the backend behaviours
ParsedOf == [call \in BackendCalls |->
                parse_json_array_safe(ResponseText(InferenceOf[call]))]

\* s.lower().startswith(('lo', 'objective', 'learning objective'))
IsObviousPlaceholder(s) ==
    \/ StartsWith(Lower(s), <<"l","o">>)
    \/ StartsWith(Lower(s), <<"o","b","j","e","c","t","i","v","e">>)
    \/ StartsWith(Lower(s), <<"l","e","a","r","n","i","n","g"," ",
                              "o","b","j","e","c","t","i","v","e">>)

\* s = lo.strip().rstrip("."); is the candidate skipped before the duplicate test?
SkipsCandidate(lo) ==
    LET s == RStripDot(Strip(lo))
    IN  s = <<>> \/ Len(Split(s)) < 6 \/ IsObviousPlaceholder(s)

\* the string that is tested for duplicates and appended
CandidateString(lo) == Capitalize(RStripDot(Strip(lo)))

\* main loop: exact case-insensitive match with the module title or a seen objective
MainIsDuplicate(s, module, seen) ==
    \/ Lower(s) = Lower(module)
    \/ \E o \in seen : Lower(s) = Lower(o)

\* len(s_words & seen_words) / len(s_words) > 0.6
OverlapExceeds(s, o) ==
    LET s_words    == Range(Split(Lower(s)))
        seen_words == Range(Split(Lower(o)))
    IN  10 * Cardinality(s_words \cap seen_words) > 6 * Cardinality(s_words)

\* diversify loop: exact match, or more than 60% of s's words found in a seen objective
DiversifyIsDuplicate(s, seen) ==
    \E o \in seen :
        \/ Lower(s) = Lower(o)
        \/ (Len(Split(Lower(s))) > 4 /\ OverlapExceeds(s, o))

\* the for loop over parsed of the main phase, from index i on
RECURSIVE MainAcceptFrom(_, _, _, _, _)
MainAcceptFrom(parsed, i, norm, n, module) ==
    IF i > Len(parsed) \/ Len(norm) >= n THEN norm
    ELSE IF SkipsCandidate(parsed[i]) THEN MainAcceptFrom(parsed, i + 1, norm, n, module)
    ELSE LET s == CandidateString(parsed[i])
         IN  IF MainIsDuplicate(s, module, Range(norm))
             THEN MainAcceptFrom(parsed, i + 1, norm, n, module)
             ELSE MainAcceptFrom(parsed, i + 1, Append(norm, s), n, module)

\* the for loop over additional_parsed of the diversify phase, from index i on
RECURSIVE DiversifyAcceptFrom(_, _, _, _)
DiversifyAcceptFrom(parsed, i, norm, n) ==
    IF i > Len(parsed) \/ Len(norm) >= n THEN norm
    ELSE IF SkipsCandidate(parsed[i]) THEN DiversifyAcceptFrom(parsed, i + 1, norm, n)
    ELSE LET s == CandidateString(parsed[i])
         IN  IF DiversifyIsDuplicate(s, Range(norm))
             THEN DiversifyAcceptFrom(parsed, i + 1, norm, n)
             ELSE DiversifyAcceptFrom(parsed, i + 1, Append(norm, s), n)

\* a break on every attempt that adds nothing
NoProgressBreakEager(attempts, added_count) == added_count = 0

\* additional_attempts > 5 and added_count == 0
NoProgressBreak(attempts, added_count) == attempts > 5 /\ added_count = 0

\* the main loop's and the diversify loop's conditions
MainLoopContinues(norm, n, attempt) == Len(norm) < n /\ attempt < max_main_attempts
DiversifyLoopContinues(norm, n, attempts) ==
    Len(norm) < n /\ attempts < max_additional_attempts

Repeat(x, k) == [j \in 1..k |-> x]

\* one iteration of the main loop: prompt, infer_4b, parse, accept.
\* An exception of infer_4b leaves the function (nothing catches it).
MainAttempt(call) ==
    /\ LOFrame
    /\ lo_pc = "main"
    /\ MainLoopContinues(normalized, n_los, main_attempt)
    /\ main_attempt' = main_attempt + 1
    /\ main_calls' = main_calls + 1
    /\ last_outcome' = BackendBehaviour(call)
    /\ LET result == InferenceOf[call]
       IN  IF result.raises
           THEN /\ lo_pc' = "raised"
                /\ lo_exception' = "AttributeError"
                /\ UNCHANGED <<normalized, seen_objectives, resp_bound, accepted_phase>>
           ELSE LET parsed == ParsedOf[call]
                    norm2  == IF Truthy(parsed)
                              THEN MainAcceptFrom(parsed.list, 1, normalized, n_los,
                                                  modules[mi])
                              ELSE normalized
                IN  /\ normalized' = norm2
                    /\ seen_objectives' = Range(norm2)
                    /\ accepted_phase' =
                           accepted_phase \o Repeat("main", Len(norm2) - Len(normalized))
                    /\ resp_bound' = TRUE
                    /\ UNCHANGED <<lo_pc, lo_exception>>
    /\ UNCHANGED <<n_los, modules, mi, additional_attempts, results, div_calls>>

\* the main loop's condition is false: additional_attempts = 0, on to step 3
MainExit ==
    /\ LOFrame
    /\ lo_pc = "main"
    /\ ~MainLoopContinues(normalized, n_los, main_attempt)
    /\ lo_pc' = "diversify"
    /\ additional_attempts' = 0
    /\ UNCHANGED <<lo_exception, n_los, modules, mi, normalized, seen_objectives,
                   main_attempt, resp_bound, results, main_calls, div_calls,
                   accepted_phase, last_outcome>>

\* one iteration of the diversify loop, its no-progress break included
DiversifyAttempt(call) ==
    /\ LOFrame
    /\ lo_pc = "diversify"
    /\ DiversifyLoopContinues(normalized, n_los, additional_attempts)
    /\ additional_attempts' = additional_attempts + 1
    /\ div_calls' = div_calls + 1
    /\ last_outcome' = BackendBehaviour(call)
    /\ LET result == InferenceOf[call]
       IN  IF result.raises
           THEN /\ lo_pc' = "raised"
                /\ lo_exception' = "AttributeError"
                /\ UNCHANGED <<normalized, seen_objectives, accepted_phase>>
           ELSE LET parsed == ParsedOf[call]
                    norm2  == IF Truthy(parsed)
                              THEN DiversifyAcceptFrom(parsed.list, 1, normalized, n_los)
                              ELSE normalized
                    added_count == Len(norm2) - Len(normalized)
                IN  /\ normalized' = norm2
                    /\ seen_objectives' = Range(norm2)
                    /\ accepted_phase' =
                           accepted_phase \o Repeat("diversify", added_count)
                    /\ lo_pc' = IF NoProgressBreak(additional_attempts + 1, added_count)
                                THEN "store" ELSE "diversify"
                    /\ UNCHANGED lo_exception
    /\ UNCHANGED <<n_los, modules, mi, main_attempt, resp_bound, results, main_calls>>

\* the diversify loop's condition is false
DiversifyExit ==
    /\ LOFrame
    /\ lo_pc = "diversify"
    /\ ~DiversifyLoopContinues(normalized, n_los, additional_attempts)
    /\ lo_pc' = "store"
    /\ UNCHANGED <<lo_exception, n_los, modules, mi, normalized, seen_objectives,
                   main_attempt, additional_attempts, resp_bound, results, main_calls,
                   div_calls, accepted_phase, last_outcome>>

\* normalized[:n_los] for n_los >= 0
Truncate(norm, n) == SubSeq(norm, 1, IF Len(norm) < n THEN Len(norm) ELSE n)

\* Step 6: results[module] = {"learning_objectives": normalized[:n_los],
\* "raw_model_output": resp, ...}; reading resp before any assignment raises
\* UnboundLocalError.  Then the next module starts, or the results are saved
\* and returned.  additional_attempts is not read again before line 505
\* assigns it, so the next module starts from its assigned value 0.
StoreResults ==
    /\ LOFrame
    /\ lo_pc = "store"
    /\ IF ~resp_bound
       THEN /\ lo_pc' = "raised"
            /\ lo_exception' = "UnboundLocalError"
            /\ UNCHANGED <<mi, normalized, seen_objectives, main_attempt,
                           additional_attempts, results, main_calls, div_calls,
                           accepted_phase, last_outcome>>
       ELSE /\ results' = Append(results, Truncate(normalized, n_los))
            /\ UNCHANGED lo_exception
            /\ IF mi < Len(modules)
               THEN /\ mi' = mi + 1
                    /\ lo_pc' = "main"
                    /\ normalized' = <<>>
                    /\ seen_objectives' = {}
                    /\ main_attempt' = 0
                    /\ additional_attempts' = 0
                    /\ main_calls' = 0
                    /\ div_calls' = 0
                    /\ accepted_phase' = <<>>
                    /\ last_outcome' = "none"
               ELSE /\ lo_pc' = "done"
                    /\ UNCHANGED <<mi, normalized, seen_objectives, main_attempt,
                                   additional_attempts, main_calls, div_calls,
                                   accepted_phase, last_outcome>>
    /\ UNCHANGED <<n_los, modules, resp_bound>>

(***************************************************************************)
(* Quiz workflow (sme/quiz_gen/main.py):                                   *)
(* generate_questions -> aggregate_quiz -> save_quiz -> END                *)
(***************************************************************************)
\* a question as the backend writes it: the option labels stand for the
\* option strings ('A) ...', 'B) ...')
OptionLabels == <<"A", "B">>
Questions ==
    [id : 1..(MaxQuestions + 1), options : {OptionLabels}, correct_answer : {"A", "C"}]

RECURSIVE SeqsUpTo(_, _)
SeqsUpTo(S, k) ==
    IF k = 0 THEN {<<>>}
    ELSE LET shorter == SeqsUpTo(S, k - 1)
         IN  shorter \cup {Append(q, x) : q \in {r \in shorter : Len(r) = k - 1}, x \in S}

\* what the chat-completions call of generate_questions_node can produce:
\* an exception of the client, a content that is not JSON, a JSON value that
\* is not an object, or a JSON object with or without a "questions" list
QuizResponses ==
    {[kind |-> "api_error", questions |-> <<>>],
     [kind |-> "invalid_json", questions |-> <<>>],
     [kind |-> "not_object", questions |-> <<>>],
     [kind |-> "object_without_questions", questions |-> <<>>]}
    \cup {[kind |-> "object", questions |-> qs] : qs \in SeqsUpTo(Questions, MaxQuestions + 1)}

NoResponse == [kind |-> "none", questions |-> <<>>]

\* final_quiz = {} before aggregation
EmptyQuiz == [built |-> FALSE, total_questions |-> 0, num_questions |-> 0, questions |-> <<>>]

\* GenerationRaises without the check of the questions list
GenerationRaisesUnchecked(resp) ==
    resp.kind \in {"api_error", "invalid_json", "not_object"}

\* steps 5 and 6 of generate_questions_node: does the try block raise?
\* quiz_data.get("questions", []) of an object; json.loads or .get raise otherwise
GenerationRaises(resp) ==
    \/ resp.kind \in {"api_error", "invalid_json", "not_object"}
    \/ resp.questions = <<>>        \* if not generated_questions: raise ValueError

\* generate_questions_node
generate_questions_node(resp) ==
    /\ QuizFrame
    /\ quiz_pc = "generate_questions"
    /\ IF GenerationRaises(resp)
       THEN /\ quiz_error' = "Question generation failed"
            /\ UNCHANGED generated_questions
       ELSE /\ generated_questions' = resp.questions
            /\ UNCHANGED quiz_error
    /\ quiz_pc' = "aggregate_quiz"
    /\ quiz_response' = resp
    /\ UNCHANGED <<num_questions, question_types_ok, final_quiz, quiz_file, quiz_raised>>

\* state.get("error") is truthy
ErrorSet(error) == error # "None"

\* aggregate_quiz_node without the early return on state.get("error")
aggregate_quiz_node_unguarded ==
    /\ QuizFrame
    /\ quiz_pc = "aggregate_quiz"
    /\ IF question_types_ok
       THEN /\ final_quiz' = [built |-> TRUE,
                              total_questions |-> Len(generated_questions),
                              num_questions |-> num_questions,
                              questions |-> generated_questions]
            /\ UNCHANGED quiz_error
       ELSE /\ quiz_error' = "Quiz aggregation failed"
            /\ UNCHANGED final_quiz
    /\ quiz_pc' = "save_quiz"
    /\ UNCHANGED <<num_questions, question_types_ok, generated_questions, quiz_file,
                   quiz_raised, quiz_response>>

\* aggregate_quiz_node: a no-op once error is set; building the metadata
\* raises when cfg.quiz_gen.question_types is missing
aggregate_quiz_node ==
    /\ QuizFrame
    /\ quiz_pc = "aggregate_quiz"
    /\ IF ErrorSet(quiz_error)
       THEN UNCHANGED <<final_quiz, quiz_error>>
       ELSE IF question_types_ok
            THEN /\ final_quiz' = [built |-> TRUE,
                                   total_questions |-> Len(generated_questions),
                                   num_questions |-> num_questions,
                                   questions |-> generated_questions]
                 /\ UNCHANGED quiz_error
            ELSE /\ quiz_error' = "Quiz aggregation failed"
                 /\ UNCHANGED final_quiz
    /\ quiz_pc' = "save_quiz"
    /\ UNCHANGED <<num_questions, question_types_ok, generated_questions, quiz_file,
                   quiz_raised, quiz_response>>

\* save_quiz_node: a no-op once error is set; writing the file may fail
save_quiz_node(write_ok) ==
    /\ QuizFrame
    /\ quiz_pc = "save_quiz"
    /\ IF ErrorSet(quiz_error)
       THEN UNCHANGED <<quiz_file, quiz_error>>
       ELSE IF write_ok
            THEN /\ quiz_file' = final_quiz
                 /\ UNCHANGED quiz_error
            ELSE /\ quiz_error' = "Quiz saving failed"
                 /\ UNCHANGED quiz_file
    /\ quiz_pc' = "END"
    /\ UNCHANGED <<num_questions, question_types_ok, generated_questions, final_quiz,
                   quiz_raised, quiz_response>>

\* run_quiz_generation_workflow after workflow.invoke: raise Exception(error)
\* or return final_state["final_quiz"]
run_quiz_generation_workflow ==
    /\ QuizFrame
    /\ quiz_pc = "END"
    /\ IF ErrorSet(quiz_error)
       THEN /\ quiz_pc' = "raised"
            /\ quiz_raised' = quiz_error
       ELSE /\ quiz_pc' = "returned"
            /\ UNCHANGED quiz_raised
    /\ UNCHANGED <<num_questions, question_types_ok, generated_questions, final_quiz,
                   quiz_error, quiz_file, quiz_response>>

\* load_documents_with_error_handling giving up at the first file that
\* does not load
load_documents_aborting(course_docs) ==
    IF \E f \in course_docs : load_single_file(f) = {}
    THEN {}
    ELSE UNION {load_single_file(f) : f \in course_docs}

\* load_documents_with_error_handling: every file is tried; the documents of
\* the files that load are returned, the others are recorded as failed
load_documents_with_error_handling(course_docs) ==
    UNION {load_single_file(f) : f \in course_docs}
failed_files(course_docs) == {f \in course_docs : load_single_file(f) = {}}

\* smart_document_chunking: the chunks of the documents that can be split
smart_document_chunking(documents) == {f \in documents : Chunkable(f)}

\* create_vs without the os.path.exists(vs_path) shortcut: always rebuilds
create_vs_rebuilding(course_docs, idx) ==
    LET documents == load_documents_with_error_handling(course_docs)
        texts     == smart_document_chunking(documents)
    IN  IF documents = {} \/ texts = {}
        THEN [raises |-> TRUE, index |-> idx, loads |-> 1, embeds |-> 0, saves |-> 0]
        ELSE [raises |-> FALSE, index |-> [exists |-> TRUE, files |-> texts],
              loads |-> 1, embeds |-> 1, saves |-> 1]

\* create_vs for one course: an existing index is loaded and returned;
\* otherwise the documents are loaded, chunked, embedded and the index saved.
\* ValueError when no document loads or no chunk results.
create_vs(course_docs, idx) ==
    IF idx.exists
    THEN [raises |-> FALSE, index |-> idx, loads |-> 0, embeds |-> 0, saves |-> 0]
    ELSE LET documents == load_documents_with_error_handling(course_docs)
             texts     == smart_document_chunking(documents)
         IN  IF documents = {}
             THEN [raises |-> TRUE, index |-> idx, loads |-> 1, embeds |-> 0, saves |-> 0]
             ELSE IF texts = {}
             THEN [raises |-> TRUE, index |-> idx, loads |-> 1, embeds |-> 0, saves |-> 0]
             ELSE [raises |-> FALSE, index |-> [exists |-> TRUE, files |-> texts],
                   loads |-> 1, embeds |-> 1, saves |-> 1]

\* the work a create_vs call adds to a course's counters
WorkAfter(w, r) ==
    [loads |-> w.loads + r.loads, embeds |-> w.embeds + r.embeds, saves |-> w.saves + r.saves]

\* POST /upload-file: the file is written under data/docs/<c>
upload_file(c, f) ==
    /\ VSFrame
    /\ docs' = [docs EXCEPT ![c] = @ \cup {f}]
    /\ UNCHANGED <<index, work, ok_builds, build_calls, last_req>>

\* POST /createvs: rejected when the course has no documents, create_vs otherwise
create_vector_store_api(c) ==
    /\ VSFrame
    /\ build_calls < MaxBuildCalls
    /\ build_calls' = build_calls + 1
    /\ IF docs[c] = {}
       THEN /\ last_req' = Served("createvs", c, "rejected", 0, 0, {})
            /\ UNCHANGED <<index, work, ok_builds>>
       ELSE LET r == create_vs(docs[c], index[c])
            IN  /\ index' = [index EXCEPT ![c] = r.index]
                /\ work' = [work EXCEPT ![c] = WorkAfter(@, r)]
                /\ ok_builds' = [ok_builds EXCEPT ![c] = IF r.raises THEN @ ELSE @ + 1]
                /\ last_req' = Served("createvs", c,
                                      IF r.raises THEN "ValueError"
                                      ELSE IF r.embeds = 1 THEN "created" ELSE "loaded",
                                      0, 0,
                                      IF r.loads = 1 THEN failed_files(docs[c]) ELSE {})
    /\ UNCHANGED docs

\* load_vector_store of lo_gen: the store, or None when the path is missing;
\* the persisted index is only read
lo_gen_load_vector_store(idx) ==
    [raises |-> FALSE, loaded |-> idx.exists, index |-> idx]

\* load_vector_store of module_gen without the existence check: None is
\* returned for a missing index, as the other two loaders do
module_gen_load_vector_store_lenient(idx) ==
    [raises |-> FALSE, loaded |-> idx.exists, index |-> idx]

\* load_vector_store of module_gen: FileNotFoundError when the path is missing
module_gen_load_vector_store(idx) ==
    [raises |-> ~idx.exists, loaded |-> idx.exists, index |-> idx]

\* load_vector_store of quiz_gen building the index of a course that has none
quiz_gen_load_vector_store_building(idx) ==
    [raises |-> FALSE, loaded |-> TRUE,
     index |-> IF idx.exists THEN idx ELSE [exists |-> TRUE, files |-> {"notes.txt"}]]

\* load_vector_store of quiz_gen: the store, or None when the path is missing
quiz_gen_load_vector_store(idx) ==
    [raises |-> FALSE, loaded |-> idx.exists, index |-> idx]

\* POST /generate-los for course c: the store is queried when it loaded,
\* keyword search over the documents is the fallback; inference calls follow
generate_los(c) ==
    /\ VSFrame
    /\ LET r == lo_gen_load_vector_store(index[c])
       IN  /\ index' = [index EXCEPT ![c] = r.index]
           /\ last_req' = Served("generate_los", c, "generated",
                                 IF r.loaded THEN 1 ELSE 0, 1, {})
    /\ UNCHANGED <<docs, work, ok_builds, build_calls>>

\* POST /generate-module for course c: generate_module_content loads the
\* store first; retrieval, summarization and generation follow only then
generate_module(c) ==
    /\ VSFrame
    /\ LET r == module_gen_load_vector_store(index[c])
       IN  /\ index' = [index EXCEPT ![c] = r.index]
           /\ last_req' = IF r.raises
                          THEN Served("generate_module", c, "FileNotFoundError", 0, 0, {})
                          ELSE Served("generate_module", c, "generated",
                                      IF r.loaded THEN 1 ELSE 0, 1, {})
    /\ UNCHANGED <<docs, work, ok_builds, build_calls>>

\* POST /generate-quiz for course c: the workflow queries the store when it
\* loaded and calls the backend either way
generate_quiz(c) ==
    /\ VSFrame
    /\ LET r == quiz_gen_load_vector_store(index[c])
       IN  /\ index' = [index EXCEPT ![c] = r.index]
           /\ last_req' = Served("generate_quiz", c, "generated",
                                 IF r.loaded THEN 1 ELSE 0, 1, {})
    /\ UNCHANGED <<docs, work, ok_builds, build_calls>>

\* POST /chat without the check that the course's vector store exists
chat_unchecked(c) ==
    /\ VSFrame
    /\ IF docs[c] = {}
       THEN /\ last_req' = Served("chat", c, "rejected", 0, 0, {})
            /\ UNCHANGED <<index, work>>
       ELSE LET r == create_vs(docs[c], index[c])
            IN  /\ index' = [index EXCEPT ![c] = r.index]
                /\ work' = [work EXCEPT ![c] = WorkAfter(@, r)]
                /\ last_req' = IF r.raises
                               THEN Served("chat", c, "ValueError", 0, 0, {})
                               ELSE Served("chat", c, "answered", 1, 1, {})
    /\ UNCHANGED <<docs, ok_builds, build_calls>>

\* POST /chat for course c: rejected unless the course has documents and a
\* vector store; create_vector_store then loads it and the retrieval chain
\* queries it and calls the backend
chat_with_course_content(c) ==
    /\ VSFrame
    /\ IF docs[c] = {} \/ ~index[c].exists
       THEN /\ last_req' = Served("chat", c, "rejected", 0, 0, {})
            /\ UNCHANGED <<index, work>>
       ELSE LET r == create_vs(docs[c], index[c])
            IN  /\ index' = [index EXCEPT ![c] = r.index]
                /\ work' = [work EXCEPT ![c] = WorkAfter(@, r)]
                /\ last_req' = IF r.raises
                               THEN Served("chat", c, "ValueError", 0, 0, {})
                               ELSE Served("chat", c, "answered", 1, 1, {})
    /\ UNCHANGED <<docs, ok_builds, build_calls>>

\* one blocking inference call: infer_4b on a backend whose k-th request, if
\* issued, ends as call.http[k] and whose 200 response carries call.body
infer_4b_call(call) ==
    /\ ClientFrame
    /\ client_call' = call
    /\ client_result' = infer_4b(call)

\* the response arrives: raise_for_status raises HTTPException(502) before
\* anything is yielded, or the loop over the lines starts
stream_open(status_ok) ==
    /\ StreamFrame
    /\ stream_pc = "open"
    /\ stream_pc' = IF status_ok THEN "reading" ELSE "raised"
    /\ UNCHANGED <<stream_sent, stream_yielded>>

\* the loop of infer_4b_stream reads the next line
stream_line(line) ==
    /\ StreamFrame
    /\ stream_pc = "reading"
    /\ Len(stream_sent) < MaxStreamLines
    /\ LET r == stream_iteration(line, stream_yielded)
       IN  /\ stream_yielded' = r.yielded
           /\ stream_pc' = IF r.stop THEN "ended" ELSE "reading"
    /\ stream_sent' = Append(stream_sent, line)

\* the backend closes the response: the loop over the lines ends
stream_close ==
    /\ StreamFrame
    /\ stream_pc = "reading"
    /\ stream_pc' = "closed"
    /\ UNCHANGED <<stream_sent, stream_yielded>>

\* a line the backend sends after the loop has left by `break` is never read
stream_line_unread(line) ==
    /\ StreamFrame
    /\ stream_pc = "ended"
    /\ Len(stream_sent) < MaxStreamLines
    /\ stream_sent' = Append(stream_sent, line)
    /\ UNCHANGED <<stream_pc, stream_yielded>>

\* a thread takes a request: the handler starts with the request's body
handle_request(t, endpoint, c) ==
    /\ ConcFrame
    /\ conc_pc[t] = "idle"
    /\ conc_req' = [conc_req EXCEPT ![t] = [endpoint |-> endpoint, courseID |-> c]]
    /\ conc_reads' = [conc_reads EXCEPT ![t] = {}]
    /\ conc_pc' = [conc_pc EXCEPT ![t] = "set_lo"]
    /\ UNCHANGED <<cfg_lo_gen_course_id, cfg_module_gen_course_id>>

\* cfg.lo_gen.course_id = req.courseID (both handlers)
set_lo_gen_course_id(t) ==
    /\ ConcFrame
    /\ conc_pc[t] = "set_lo"
    /\ cfg_lo_gen_course_id' = conc_req[t].courseID
    /\ conc_pc' = [conc_pc EXCEPT ![t] = IF conc_req[t].endpoint = "generate-module"
                                         THEN "set_module" ELSE "load"]
    /\ UNCHANGED <<cfg_module_gen_course_id, conc_req, conc_reads>>

\* cfg.module_gen.course_id = req.courseID (generate_module)
set_module_gen_course_id(t) ==
    /\ ConcFrame
    /\ conc_pc[t] = "set_module"
    /\ cfg_module_gen_course_id' = conc_req[t].courseID
    /\ conc_pc' = [conc_pc EXCEPT ![t] = "load"]
    /\ UNCHANGED <<cfg_lo_gen_course_id, conc_req, conc_reads>>

\* load_vector_store(cfg) of the generator the handler calls: the course id
\* of the index is read from the config.  generate_los_for_modules loads once
\* and then retrieves per module; generate_module loads once per module.
conc_load_vector_store(t, more) ==
    /\ ConcFrame
    /\ conc_pc[t] = "load"
    /\ LET los == conc_req[t].endpoint = "generate-los"
           course_id == IF los THEN cfg_lo_gen_course_id ELSE cfg_module_gen_course_id
       IN  /\ conc_reads' = [conc_reads EXCEPT ![t] = @ \cup {course_id}]
           /\ conc_pc' = [conc_pc EXCEPT ![t] =
                             IF more THEN (IF los THEN "search" ELSE "load") ELSE "done"]
    /\ UNCHANGED <<cfg_lo_gen_course_id, cfg_module_gen_course_id, conc_req>>

\* keyword_search(cfg, module) for a module without chunks from the index:
\* the course id of the document directory is read from the config again
conc_keyword_search(t, more) ==
    /\ ConcFrame
    /\ conc_pc[t] = "search"
    /\ conc_reads' = [conc_reads EXCEPT ![t] = @ \cup {cfg_lo_gen_course_id}]
    /\ conc_pc' = [conc_pc EXCEPT ![t] = IF more THEN "search" ELSE "done"]
    /\ UNCHANGED <<cfg_lo_gen_course_id, cfg_module_gen_course_id, conc_req>>

\* the handler returns its response
conc_respond(t) ==
    /\ ConcFrame
    /\ conc_pc[t] = "done"
    /\ conc_pc' = [conc_pc EXCEPT ![t] = "idle"]
    /\ UNCHANGED <<cfg_lo_gen_course_id, cfg_module_gen_course_id, conc_req, conc_reads>>

\* parse_json_array(text) runs and returns
parse_call ==
    /\ ParseFrame
    /\ ~parse_done
    /\ parse_done' = TRUE
    /\ parse_result' = parse_json_array(parse_text)
    /\ UNCHANGED parse_text

\* load_vector_store and retrieve_context_for_objectives: a missing index
\* raises, otherwise every objective gets its (possibly empty) chunks
mg_retrieve(context) ==
    /\ ModuleFrame
    /\ mg_pc = "start"
    /\ IF module_gen_load_vector_store(mg_index).raises
       THEN /\ mg_pc' = "raised"
            /\ mg_exception' = "FileNotFoundError"
            /\ UNCHANGED mg_context
       ELSE /\ mg_pc' = "summarize"
            /\ mg_context' = context
            /\ UNCHANGED mg_exception
    /\ UNCHANGED <<mg_objectives, mg_index, mg_template_len, mg_summaries, mg_calls,
                   mg_processed, mg_max_tokens, mg_content>>

\* one iteration of the loop over context_map:
\* summarize_chunks_for_objective for the next objective
mg_summarize(call) ==
    /\ ModuleFrame
    /\ mg_pc = "summarize"
    /\ Len(mg_summaries) < Len(context_keys(mg_objectives))
    /\ LET obj == context_keys(mg_objectives)[Len(mg_summaries) + 1]
           result == infer_4b(call)
       IN  IF ~mg_context[obj]
           THEN /\ mg_pc' = "raised"
                /\ mg_exception' = "ValueError"
                /\ UNCHANGED <<mg_summaries, mg_calls, mg_processed>>
           ELSE /\ mg_calls' = Append(mg_calls,
                        [kind |-> "summarize", objective |-> obj,
                         ok |-> result.ok /\ ~result.raises])
                /\ IF result.raises
                   THEN /\ mg_pc' = "raised"
                        /\ mg_exception' = "AttributeError"
                        /\ UNCHANGED <<mg_summaries, mg_processed>>
                   ELSE IF SummarizationFails(result)
                   THEN /\ mg_pc' = "raised"
                        /\ mg_exception' = "Exception"
                        /\ UNCHANGED <<mg_summaries, mg_processed>>
                   ELSE LET text == ModuleResultText(result)
                        IN  /\ mg_summaries' = Append(mg_summaries, clean_summary(text))
                            /\ mg_processed' = Append(mg_processed,
                                   [kind |-> "summary", raw |-> text,
                                    out |-> clean_summary(text)])
                            /\ UNCHANGED <<mg_pc, mg_exception>>
    /\ UNCHANGED <<mg_objectives, mg_index, mg_template_len, mg_context, mg_max_tokens,
                   mg_content>>

\* after the loop: the prompt, the token budget, the generation call, the
\* clean-up and the result
mg_generate(call) ==
    /\ ModuleFrame
    /\ mg_pc = "summarize"
    /\ Len(mg_summaries) = Len(context_keys(mg_objectives))
    /\ LET prompt_len == mg_template_len + ObjectivesTextLen(mg_objectives)
                            + ReferenceContextLen(context_keys(mg_objectives), mg_summaries)
           result == infer_4b(call)
       IN  /\ mg_max_tokens' = <<available_output_tokens(prompt_len)>>
           /\ mg_calls' = Append(mg_calls,
                   [kind |-> "generate", objective |-> "all",
                    ok |-> result.ok /\ ~result.raises])
           /\ IF result.raises
              THEN /\ mg_pc' = "raised"
                   /\ mg_exception' = "AttributeError"
                   /\ UNCHANGED <<mg_processed, mg_content>>
              ELSE IF ~result.ok
              THEN /\ mg_pc' = "raised"
                   /\ mg_exception' = "Exception"
                   /\ UNCHANGED <<mg_processed, mg_content>>
              ELSE /\ mg_pc' = "returned"
                   /\ mg_content' = clean_content(result.text)
                   /\ mg_processed' = Append(mg_processed,
                          [kind |-> "final", raw |-> result.text,
                           out |-> clean_content(result.text)])
                   /\ UNCHANGED mg_exception
    /\ UNCHANGED <<mg_objectives, mg_index, mg_template_len, mg_context, mg_summaries>>

\* smart_document_chunking handles the document
chunk_call ==
    /\ ChunkFrame
    /\ ~chunk_done
    /\ chunk_done' = TRUE
    /\ chunk_out' = chunk_document(chunk_doc)
    /\ UNCHANGED chunk_doc

\* what the instructor's SME client gets from POST /createvs, and the index
\* SME holds afterwards: a connection error, an error response (no
\* documents, or nothing to index), or success
sme_create_vector_store(sme_docs, idx, reachable) ==
    IF ~reachable THEN [ok |-> FALSE, index |-> idx]
    ELSE IF sme_docs = {} THEN [ok |-> FALSE, index |-> idx]
    ELSE LET r == create_vs(sme_docs, idx)
         IN  [ok |-> ~r.raises, index |-> r.index]

\* the status create_vector_store_async writes after a call that raised
\* left as it was
StatusAfterCreateStuck(ok) == IF ok THEN "ready" ELSE "creating"

\* the status create_vector_store_async writes after the SME call
StatusAfterCreate(ok) == IF ok THEN "ready" ELSE "failed"


\* POST /courses/{courseid}/upload-to-sme, run on the event loop: the files
\* go to SME (a failure is only reported), then creation is triggered
\* unless the status is "creating"
upload_course_files_to_sme(files, sme_upload_ok, create_vector_store) ==
    /\ InstructorFrame
    /\ in_task = NoTask
    /\ in_uploads < MaxUploads
    /\ in_uploads' = in_uploads + 1
    /\ in_sme_docs' = IF sme_upload_ok THEN in_sme_docs \cup files ELSE in_sme_docs
    /\ in_pending' =
           IF create_vector_store /\ in_status # "creating"
           THEN Append(in_pending,
                       [trigger |-> in_status,
                        files |-> IF sme_upload_ok THEN files ELSE {}])
           ELSE in_pending
    /\ UNCHANGED <<in_status, in_sme_index, in_task, in_manual, in_lo_pc,
                   in_lo_called_at, in_lo_rejected, in_recreated, in_last_outcome>>

\* create_vector_store_async starts on the event loop: the status becomes
\* "creating" and the SME call is issued
create_vector_store_async_start ==
    /\ InstructorFrame
    /\ in_task = NoTask
    /\ in_pending # <<>>
    /\ in_task' = Head(in_pending)
    /\ in_pending' = Tail(in_pending)
    /\ in_status' = "creating"
    /\ UNCHANGED <<in_sme_docs, in_sme_index, in_manual, in_uploads, in_lo_pc,
                   in_lo_called_at, in_lo_rejected, in_recreated, in_last_outcome>>

\* the SME call of create_vector_store_async returns or raises: the status
\* becomes "ready" or "failed"
create_vector_store_async_finish(reachable) ==
    /\ InstructorFrame
    /\ in_task # NoTask
    /\ LET r == sme_create_vector_store(in_sme_docs, in_sme_index, reachable)
       IN  /\ in_sme_index' = r.index
           /\ in_status' = StatusAfterCreate(r.ok)
           /\ in_last_outcome' = IF r.ok THEN "ok" ELSE "error"
           /\ in_recreated' = IF r.ok /\ in_task.trigger = "ready"
                              THEN <<in_task.files>> ELSE <<>>
    /\ in_task' = NoTask
    /\ UNCHANGED <<in_sme_docs, in_pending, in_manual, in_uploads, in_lo_pc,
                   in_lo_called_at, in_lo_rejected>>

\* POST /courses/{courseid}/create-vector-store is handed to a worker
\* thread, which issues the SME call
create_course_vector_store_start ==
    /\ InstructorFrame
    /\ in_task = NoTask
    /\ in_manual < MaxManual
    /\ in_manual' = in_manual + 1
    /\ UNCHANGED <<in_status, in_sme_docs, in_sme_index, in_pending, in_task, in_uploads,
                   in_lo_pc, in_lo_called_at, in_lo_rejected, in_recreated,
                   in_last_outcome>>

\* the SME call of a manual creation returns or raises
create_course_vector_store_finish(reachable) ==
    /\ InstructorFrame
    /\ in_manual > 0
    /\ in_manual' = in_manual - 1
    /\ in_sme_index' = sme_create_vector_store(in_sme_docs, in_sme_index, reachable).index
    /\ UNCHANGED <<in_status, in_sme_docs, in_pending, in_task, in_uploads, in_lo_pc,
                   in_lo_called_at, in_lo_rejected, in_recreated, in_last_outcome>>

\* POST /courses/{courseid}/generate-los on a worker thread, up to the
\* status checks: any status but "ready" is an error response
generate_learning_objectives_check ==
    /\ InstructorFrame
    /\ in_task = NoTask
    /\ in_lo_pc = "idle"
    /\ in_lo_pc' = IF in_status = "ready" THEN "passed" ELSE "idle"
    /\ in_lo_rejected' = (in_status # "ready")
    /\ UNCHANGED <<in_status, in_sme_docs, in_sme_index, in_pending, in_task, in_manual,
                   in_uploads, in_lo_called_at, in_recreated, in_last_outcome>>

\* the same request after the module look-ups: SME objective generation is called
generate_learning_objectives_call ==
    /\ InstructorFrame
    /\ in_lo_pc = "passed"
    /\ in_lo_pc' = "idle"
    /\ in_lo_called_at' = in_status
    /\ UNCHANGED <<in_status, in_sme_docs, in_sme_index, in_pending, in_task, in_manual,
                   in_uploads, in_lo_rejected, in_recreated, in_last_outcome>>

\* POST /generate-quiz: empty module content raises HTTPException(400)
\* inside the try; otherwise the overrides are written into the shared cfg
\* and the workflow runs with it
generate_quiz_http(req, workflow_ok) ==
    /\ ApiFrame
    /\ IF req.content_empty
       THEN /\ api_response' = Response("generate_quiz", 400, FALSE, NoReads, NoReads)
            /\ UNCHANGED api_cfg
       ELSE /\ api_cfg' = apply_overrides(api_cfg, req)
            /\ api_response' = Response("generate_quiz",
                                        IF workflow_ok THEN 0 ELSE 500, TRUE,
                                        quiz_reads(api_cfg'),
                                        quiz_reads(apply_overrides(StartupCfg, req)))
    /\ UNCHANGED <<api_docs, api_index>>

\* POST /createvs: no documents raises HTTPException(400) inside the try;
\* otherwise the index is built
create_vector_store_api_http(c, build_ok) ==
    /\ ApiFrame
    /\ IF c \notin api_docs
       THEN /\ api_response' = Response("createvs", 400, FALSE, NoReads, NoReads)
            /\ UNCHANGED api_index
       ELSE /\ api_index' = IF build_ok THEN api_index \cup {c} ELSE api_index
            /\ api_response' = Response("createvs", IF build_ok THEN 0 ELSE 500, TRUE,
                                        NoReads, NoReads)
    /\ UNCHANGED <<api_cfg, api_docs>>

\* POST /chat: an empty prompt, an empty course id, missing documents and a
\* missing vector store each raise HTTPException(400) inside the try;
\* otherwise the retrieval chain runs
chat_with_course_content_http(req, chain_ok) ==
    /\ ApiFrame
    /\ api_response' =
           IF \/ req.prompt_empty
              \/ req.courseid = ""
              \/ req.courseid \notin api_docs
              \/ req.courseid \notin api_index
           THEN Response("chat", 400, FALSE, NoReads, NoReads)
           ELSE Response("chat", IF chain_ok THEN 0 ELSE 500, TRUE, NoReads, NoReads)
    /\ UNCHANGED <<api_cfg, api_docs, api_index>>

(***************************************************************************)
(* Specifications: one component runs, the others stay at rest             *)
(***************************************************************************)
vars == <<lo_vars, quiz_vars, vs_vars, client_vars, stream_vars, conc_vars, parse_vars, mg_vars, chunk_vars, in_vars, api_vars>>

\* generate_los_for_modules(cfg, modules, n_los) from its first statement
InitLO ==
    /\ lo_pc = "main"
    /\ lo_exception = "none"
    /\ n_los \in 0..MaxNLos
    /\ modules \in ModuleLists
    /\ mi = 1
    /\ normalized = <<>>
    /\ seen_objectives = {}
    /\ main_attempt = 0
    /\ additional_attempts = 0
    /\ resp_bound = FALSE
    /\ results = <<>>
    /\ main_calls = 0
    /\ div_calls = 0
    /\ accepted_phase = <<>>
    /\ last_outcome = "none"
    /\ quiz_pc = "returned"
    /\ num_questions = 1
    /\ question_types_ok = TRUE
    /\ generated_questions = <<>>
    /\ final_quiz = EmptyQuiz
    /\ quiz_error = "None"
    /\ quiz_file = EmptyQuiz
    /\ quiz_raised = "None"
    /\ quiz_response = NoResponse
    /\ docs = [c \in Courses |-> {}]
    /\ index = [c \in Courses |-> NoIndex]
    /\ work = [c \in Courses |-> NoWork]
    /\ ok_builds = [c \in Courses |-> 0]
    /\ build_calls = 0
    /\ last_req = NoRequest
    /\ client_call = NoCall
    /\ client_result = NoResult
    /\ stream_pc = "ended"
    /\ stream_sent = <<>>
    /\ stream_yielded = <<>>
    /\ cfg_lo_gen_course_id = "None"
    /\ cfg_module_gen_course_id = "None"
    /\ conc_req = [t \in Threads |-> NoReq]
    /\ conc_pc = [t \in Threads |-> "idle"]
    /\ conc_reads = [t \in Threads |-> {}]
    /\ parse_text = EmptyText
    /\ parse_done = TRUE
    /\ parse_result = NoneValue
    /\ mg_pc = "returned"
    /\ mg_objectives = <<>>
    /\ mg_index = NoIndex
    /\ mg_template_len = 0
    /\ mg_context = [o \in Objectives |-> FALSE]
    /\ mg_summaries = <<>>
    /\ mg_calls = <<>>
    /\ mg_processed = <<>>
    /\ mg_max_tokens = <<>>
    /\ mg_content = NoContent
    /\ mg_exception = "none"
    /\ chunk_doc = [spans |-> <<"small">>, fault |-> NoFault, fallback_raises |-> FALSE]
    /\ chunk_done = TRUE
    /\ chunk_out = <<>>
    /\ in_status = "absent"
    /\ in_sme_docs = {}
    /\ in_sme_index = NoIndex
    /\ in_pending = <<>>
    /\ in_task = NoTask
    /\ in_manual = 0
    /\ in_uploads = 0
    /\ in_lo_pc = "idle"
    /\ in_lo_called_at = "none"
    /\ in_lo_rejected = FALSE
    /\ in_recreated = <<>>
    /\ in_last_outcome = "none"
    /\ api_cfg = StartupCfg
    /\ api_docs = {}
    /\ api_index = {}
    /\ api_response = NoHttpResponse

NextLO ==
    \/ \E call \in BackendCalls : MainAttempt(call)
    \/ MainExit
    \/ \E call \in BackendCalls : DiversifyAttempt(call)
    \/ DiversifyExit
    \/ StoreResults

\* the steps that call infer_4b
NextCall ==
    \/ \E call \in BackendCalls : MainAttempt(call)
    \/ \E call \in BackendCalls : DiversifyAttempt(call)

SpecLO == InitLO /\ [][NextLO]_vars

\* run_quiz_generation_workflow(cfg, module_data) with its initial QuizState
InitQuiz ==
    /\ quiz_pc = "generate_questions"
    /\ num_questions \in 1..MaxQuestions
    /\ question_types_ok \in BOOLEAN
    /\ generated_questions = <<>>
    /\ final_quiz = EmptyQuiz
    /\ quiz_error = "None"
    /\ quiz_file = EmptyQuiz
    /\ quiz_raised = "None"
    /\ quiz_response = NoResponse
    /\ lo_pc = "done"
    /\ lo_exception = "none"
    /\ n_los = 0
    /\ modules = <<>>
    /\ mi = 1
    /\ normalized = <<>>
    /\ seen_objectives = {}
    /\ main_attempt = 0
    /\ additional_attempts = 0
    /\ resp_bound = FALSE
    /\ results = <<>>
    /\ main_calls = 0
    /\ div_calls = 0
    /\ accepted_phase = <<>>
    /\ last_outcome = "none"
    /\ docs = [c \in Courses |-> {}]
    /\ index = [c \in Courses |-> NoIndex]
    /\ work = [c \in Courses |-> NoWork]
    /\ ok_builds = [c \in Courses |-> 0]
    /\ build_calls = 0
    /\ last_req = NoRequest
    /\ client_call = NoCall
    /\ client_result = NoResult
    /\ stream_pc = "ended"
    /\ stream_sent = <<>>
    /\ stream_yielded = <<>>
    /\ cfg_lo_gen_course_id = "None"
    /\ cfg_module_gen_course_id = "None"
    /\ conc_req = [t \in Threads |-> NoReq]
    /\ conc_pc = [t \in Threads |-> "idle"]
    /\ conc_reads = [t \in Threads |-> {}]
    /\ parse_text = EmptyText
    /\ parse_done = TRUE
    /\ parse_result = NoneValue
    /\ mg_pc = "returned"
    /\ mg_objectives = <<>>
    /\ mg_index = NoIndex
    /\ mg_template_len = 0
    /\ mg_context = [o \in Objectives |-> FALSE]
    /\ mg_summaries = <<>>
    /\ mg_calls = <<>>
    /\ mg_processed = <<>>
    /\ mg_max_tokens = <<>>
    /\ mg_content = NoContent
    /\ mg_exception = "none"
    /\ chunk_doc = [spans |-> <<"small">>, fault |-> NoFault, fallback_raises |-> FALSE]
    /\ chunk_done = TRUE
    /\ chunk_out = <<>>
    /\ in_status = "absent"
    /\ in_sme_docs = {}
    /\ in_sme_index = NoIndex
    /\ in_pending = <<>>
    /\ in_task = NoTask
    /\ in_manual = 0
    /\ in_uploads = 0
    /\ in_lo_pc = "idle"
    /\ in_lo_called_at = "none"
    /\ in_lo_rejected = FALSE
    /\ in_recreated = <<>>
    /\ in_last_outcome = "none"
    /\ api_cfg = StartupCfg
    /\ api_docs = {}
    /\ api_index = {}
    /\ api_response = NoHttpResponse

NextQuiz ==
    \/ \E resp \in QuizResponses : generate_questions_node(resp)
    \/ aggregate_quiz_node
    \/ \E write_ok \in BOOLEAN : save_quiz_node(write_ok)
    \/ run_quiz_generation_workflow

SpecQuiz == InitQuiz /\ [][NextQuiz]_vars

\* the SME service with an empty document store and no index
InitVS ==
    /\ docs = [c \in Courses |-> {}]
    /\ index = [c \in Courses |-> NoIndex]
    /\ work = [c \in Courses |-> NoWork]
    /\ ok_builds = [c \in Courses |-> 0]
    /\ build_calls = 0
    /\ last_req = NoRequest
    /\ lo_pc = "done"
    /\ lo_exception = "none"
    /\ n_los = 0
    /\ modules = <<>>
    /\ mi = 1
    /\ normalized = <<>>
    /\ seen_objectives = {}
    /\ main_attempt = 0
    /\ additional_attempts = 0
    /\ resp_bound = FALSE
    /\ results = <<>>
    /\ main_calls = 0
    /\ div_calls = 0
    /\ accepted_phase = <<>>
    /\ last_outcome = "none"
    /\ quiz_pc = "returned"
    /\ num_questions = 1
    /\ question_types_ok = TRUE
    /\ generated_questions = <<>>
    /\ final_quiz = EmptyQuiz
    /\ quiz_error = "None"
    /\ quiz_file = EmptyQuiz
    /\ quiz_raised = "None"
    /\ quiz_response = NoResponse
    /\ client_call = NoCall
    /\ client_result = NoResult
    /\ stream_pc = "ended"
    /\ stream_sent = <<>>
    /\ stream_yielded = <<>>
    /\ cfg_lo_gen_course_id = "None"
    /\ cfg_module_gen_course_id = "None"
    /\ conc_req = [t \in Threads |-> NoReq]
    /\ conc_pc = [t \in Threads |-> "idle"]
    /\ conc_reads = [t \in Threads |-> {}]
    /\ parse_text = EmptyText
    /\ parse_done = TRUE
    /\ parse_result = NoneValue
    /\ mg_pc = "returned"
    /\ mg_objectives = <<>>
    /\ mg_index = NoIndex
    /\ mg_template_len = 0
    /\ mg_context = [o \in Objectives |-> FALSE]
    /\ mg_summaries = <<>>
    /\ mg_calls = <<>>
    /\ mg_processed = <<>>
    /\ mg_max_tokens = <<>>
    /\ mg_content = NoContent
    /\ mg_exception = "none"
    /\ chunk_doc = [spans |-> <<"small">>, fault |-> NoFault, fallback_raises |-> FALSE]
    /\ chunk_done = TRUE
    /\ chunk_out = <<>>
    /\ in_status = "absent"
    /\ in_sme_docs = {}
    /\ in_sme_index = NoIndex
    /\ in_pending = <<>>
    /\ in_task = NoTask
    /\ in_manual = 0
    /\ in_uploads = 0
    /\ in_lo_pc = "idle"
    /\ in_lo_called_at = "none"
    /\ in_lo_rejected = FALSE
    /\ in_recreated = <<>>
    /\ in_last_outcome = "none"
    /\ api_cfg = StartupCfg
    /\ api_docs = {}
    /\ api_index = {}
    /\ api_response = NoHttpResponse

NextVS ==
    \/ \E c \in Courses, f \in Files : upload_file(c, f)
    \/ \E c \in Courses : create_vector_store_api(c)
    \/ \E c \in Courses : generate_los(c)
    \/ \E c \in Courses : generate_module(c)
    \/ \E c \in Courses : generate_quiz(c)
    \/ \E c \in Courses : chat_with_course_content(c)

SpecVS == InitVS /\ [][NextVS]_vars

\* the server's worker threads handling generation requests
InitConc ==
    /\ cfg_lo_gen_course_id = "None"
    /\ cfg_module_gen_course_id = "None"
    /\ conc_req = [t \in Threads |-> NoReq]
    /\ conc_pc = [t \in Threads |-> "idle"]
    /\ conc_reads = [t \in Threads |-> {}]
    /\ lo_pc = "done"
    /\ lo_exception = "none"
    /\ n_los = 0
    /\ modules = <<>>
    /\ mi = 1
    /\ normalized = <<>>
    /\ seen_objectives = {}
    /\ main_attempt = 0
    /\ additional_attempts = 0
    /\ resp_bound = FALSE
    /\ results = <<>>
    /\ main_calls = 0
    /\ div_calls = 0
    /\ accepted_phase = <<>>
    /\ last_outcome = "none"
    /\ quiz_pc = "returned"
    /\ num_questions = 1
    /\ question_types_ok = TRUE
    /\ generated_questions = <<>>
    /\ final_quiz = EmptyQuiz
    /\ quiz_error = "None"
    /\ quiz_file = EmptyQuiz
    /\ quiz_raised = "None"
    /\ quiz_response = NoResponse
    /\ docs = [c \in Courses |-> {}]
    /\ index = [c \in Courses |-> NoIndex]
    /\ work = [c \in Courses |-> NoWork]
    /\ ok_builds = [c \in Courses |-> 0]
    /\ build_calls = 0
    /\ last_req = NoRequest
    /\ client_call = NoCall
    /\ client_result = NoResult
    /\ stream_pc = "ended"
    /\ stream_sent = <<>>
    /\ stream_yielded = <<>>
    /\ parse_text = EmptyText
    /\ parse_done = TRUE
    /\ parse_result = NoneValue
    /\ mg_pc = "returned"
    /\ mg_objectives = <<>>
    /\ mg_index = NoIndex
    /\ mg_template_len = 0
    /\ mg_context = [o \in Objectives |-> FALSE]
    /\ mg_summaries = <<>>
    /\ mg_calls = <<>>
    /\ mg_processed = <<>>
    /\ mg_max_tokens = <<>>
    /\ mg_content = NoContent
    /\ mg_exception = "none"
    /\ chunk_doc = [spans |-> <<"small">>, fault |-> NoFault, fallback_raises |-> FALSE]
    /\ chunk_done = TRUE
    /\ chunk_out = <<>>
    /\ in_status = "absent"
    /\ in_sme_docs = {}
    /\ in_sme_index = NoIndex
    /\ in_pending = <<>>
    /\ in_task = NoTask
    /\ in_manual = 0
    /\ in_uploads = 0
    /\ in_lo_pc = "idle"
    /\ in_lo_called_at = "none"
    /\ in_lo_rejected = FALSE
    /\ in_recreated = <<>>
    /\ in_last_outcome = "none"
    /\ api_cfg = StartupCfg
    /\ api_docs = {}
    /\ api_index = {}
    /\ api_response = NoHttpResponse

NextConc ==
    \/ \E t \in Threads, endpoint \in Endpoints, c \in Courses :
            handle_request(t, endpoint, c)
    \/ \E t \in Threads : set_lo_gen_course_id(t)
    \/ \E t \in Threads : set_module_gen_course_id(t)
    \/ \E t \in Threads, more \in BOOLEAN : conc_load_vector_store(t, more)
    \/ \E t \in Threads, more \in BOOLEAN : conc_keyword_search(t, more)
    \/ \E t \in Threads : conc_respond(t)

SpecConc == InitConc /\ [][NextConc]_vars

\* one call of parse_json_array on any of the parser's texts
InitParse ==
    /\ parse_text \in ParserTexts
    /\ parse_done = FALSE
    /\ parse_result = NoneValue
    /\ lo_pc = "done"
    /\ lo_exception = "none"
    /\ n_los = 0
    /\ modules = <<>>
    /\ mi = 1
    /\ normalized = <<>>
    /\ seen_objectives = {}
    /\ main_attempt = 0
    /\ additional_attempts = 0
    /\ resp_bound = FALSE
    /\ results = <<>>
    /\ main_calls = 0
    /\ div_calls = 0
    /\ accepted_phase = <<>>
    /\ last_outcome = "none"
    /\ quiz_pc = "returned"
    /\ num_questions = 1
    /\ question_types_ok = TRUE
    /\ generated_questions = <<>>
    /\ final_quiz = EmptyQuiz
    /\ quiz_error = "None"
    /\ quiz_file = EmptyQuiz
    /\ quiz_raised = "None"
    /\ quiz_response = NoResponse
    /\ docs = [c \in Courses |-> {}]
    /\ index = [c \in Courses |-> NoIndex]
    /\ work = [c \in Courses |-> NoWork]
    /\ ok_builds = [c \in Courses |-> 0]
    /\ build_calls = 0
    /\ last_req = NoRequest
    /\ client_call = NoCall
    /\ client_result = NoResult
    /\ stream_pc = "ended"
    /\ stream_sent = <<>>
    /\ stream_yielded = <<>>
    /\ cfg_lo_gen_course_id = "None"
    /\ cfg_module_gen_course_id = "None"
    /\ conc_req = [t \in Threads |-> NoReq]
    /\ conc_pc = [t \in Threads |-> "idle"]
    /\ conc_reads = [t \in Threads |-> {}]
    /\ mg_pc = "returned"
    /\ mg_objectives = <<>>
    /\ mg_index = NoIndex
    /\ mg_template_len = 0
    /\ mg_context = [o \in Objectives |-> FALSE]
    /\ mg_summaries = <<>>
    /\ mg_calls = <<>>
    /\ mg_processed = <<>>
    /\ mg_max_tokens = <<>>
    /\ mg_content = NoContent
    /\ mg_exception = "none"
    /\ chunk_doc = [spans |-> <<"small">>, fault |-> NoFault, fallback_raises |-> FALSE]
    /\ chunk_done = TRUE
    /\ chunk_out = <<>>
    /\ in_status = "absent"
    /\ in_sme_docs = {}
    /\ in_sme_index = NoIndex
    /\ in_pending = <<>>
    /\ in_task = NoTask
    /\ in_manual = 0
    /\ in_uploads = 0
    /\ in_lo_pc = "idle"
    /\ in_lo_called_at = "none"
    /\ in_lo_rejected = FALSE
    /\ in_recreated = <<>>
    /\ in_last_outcome = "none"
    /\ api_cfg = StartupCfg
    /\ api_docs = {}
    /\ api_index = {}
    /\ api_response = NoHttpResponse

NextParse == parse_call

SpecParse == InitParse /\ [][NextParse]_vars

\* one call of generate_module_content
InitModule ==
    /\ mg_pc = "start"
    /\ mg_objectives \in ObjectiveLists
    /\ mg_index \in {NoIndex, [exists |-> TRUE, files |-> {"notes.txt"}]}
    /\ mg_template_len \in TemplateLens
    /\ mg_context = [o \in Objectives |-> FALSE]
    /\ mg_summaries = <<>>
    /\ mg_calls = <<>>
    /\ mg_processed = <<>>
    /\ mg_max_tokens = <<>>
    /\ mg_content = NoContent
    /\ mg_exception = "none"
    /\ lo_pc = "done"
    /\ lo_exception = "none"
    /\ n_los = 0
    /\ modules = <<>>
    /\ mi = 1
    /\ normalized = <<>>
    /\ seen_objectives = {}
    /\ main_attempt = 0
    /\ additional_attempts = 0
    /\ resp_bound = FALSE
    /\ results = <<>>
    /\ main_calls = 0
    /\ div_calls = 0
    /\ accepted_phase = <<>>
    /\ last_outcome = "none"
    /\ quiz_pc = "returned"
    /\ num_questions = 1
    /\ question_types_ok = TRUE
    /\ generated_questions = <<>>
    /\ final_quiz = EmptyQuiz
    /\ quiz_error = "None"
    /\ quiz_file = EmptyQuiz
    /\ quiz_raised = "None"
    /\ quiz_response = NoResponse
    /\ docs = [c \in Courses |-> {}]
    /\ index = [c \in Courses |-> NoIndex]
    /\ work = [c \in Courses |-> NoWork]
    /\ ok_builds = [c \in Courses |-> 0]
    /\ build_calls = 0
    /\ last_req = NoRequest
    /\ client_call = NoCall
    /\ client_result = NoResult
    /\ stream_pc = "ended"
    /\ stream_sent = <<>>
    /\ stream_yielded = <<>>
    /\ cfg_lo_gen_course_id = "None"
    /\ cfg_module_gen_course_id = "None"
    /\ conc_req = [t \in Threads |-> NoReq]
    /\ conc_pc = [t \in Threads |-> "idle"]
    /\ conc_reads = [t \in Threads |-> {}]
    /\ parse_text = EmptyText
    /\ parse_done = TRUE
    /\ parse_result = NoneValue
    /\ chunk_doc = [spans |-> <<"small">>, fault |-> NoFault, fallback_raises |-> FALSE]
    /\ chunk_done = TRUE
    /\ chunk_out = <<>>
    /\ in_status = "absent"
    /\ in_sme_docs = {}
    /\ in_sme_index = NoIndex
    /\ in_pending = <<>>
    /\ in_task = NoTask
    /\ in_manual = 0
    /\ in_uploads = 0
    /\ in_lo_pc = "idle"
    /\ in_lo_called_at = "none"
    /\ in_lo_rejected = FALSE
    /\ in_recreated = <<>>
    /\ in_last_outcome = "none"
    /\ api_cfg = StartupCfg
    /\ api_docs = {}
    /\ api_index = {}
    /\ api_response = NoHttpResponse

NextModule ==
    \/ \E context \in [Objectives -> BOOLEAN] : mg_retrieve(context)
    \/ \E call \in ModuleCalls : mg_summarize(call)
    \/ \E call \in ModuleCalls : mg_generate(call)

SpecModule == InitModule /\ [][NextModule]_vars

\* smart_document_chunking on any one document
InitChunk ==
    /\ chunk_doc \in ChunkInputs
    /\ chunk_done = FALSE
    /\ chunk_out = <<>>
    /\ lo_pc = "done"
    /\ lo_exception = "none"
    /\ n_los = 0
    /\ modules = <<>>
    /\ mi = 1
    /\ normalized = <<>>
    /\ seen_objectives = {}
    /\ main_attempt = 0
    /\ additional_attempts = 0
    /\ resp_bound = FALSE
    /\ results = <<>>
    /\ main_calls = 0
    /\ div_calls = 0
    /\ accepted_phase = <<>>
    /\ last_outcome = "none"
    /\ quiz_pc = "returned"
    /\ num_questions = 1
    /\ question_types_ok = TRUE
    /\ generated_questions = <<>>
    /\ final_quiz = EmptyQuiz
    /\ quiz_error = "None"
    /\ quiz_file = EmptyQuiz
    /\ quiz_raised = "None"
    /\ quiz_response = NoResponse
    /\ docs = [c \in Courses |-> {}]
    /\ index = [c \in Courses |-> NoIndex]
    /\ work = [c \in Courses |-> NoWork]
    /\ ok_builds = [c \in Courses |-> 0]
    /\ build_calls = 0
    /\ last_req = NoRequest
    /\ client_call = NoCall
    /\ client_result = NoResult
    /\ stream_pc = "ended"
    /\ stream_sent = <<>>
    /\ stream_yielded = <<>>
    /\ cfg_lo_gen_course_id = "None"
    /\ cfg_module_gen_course_id = "None"
    /\ conc_req = [t \in Threads |-> NoReq]
    /\ conc_pc = [t \in Threads |-> "idle"]
    /\ conc_reads = [t \in Threads |-> {}]
    /\ parse_text = EmptyText
    /\ parse_done = TRUE
    /\ parse_result = NoneValue
    /\ mg_pc = "returned"
    /\ mg_objectives = <<>>
    /\ mg_index = NoIndex
    /\ mg_template_len = 0
    /\ mg_context = [o \in Objectives |-> FALSE]
    /\ mg_summaries = <<>>
    /\ mg_calls = <<>>
    /\ mg_processed = <<>>
    /\ mg_max_tokens = <<>>
    /\ mg_content = NoContent
    /\ mg_exception = "none"
    /\ in_status = "absent"
    /\ in_sme_docs = {}
    /\ in_sme_index = NoIndex
    /\ in_pending = <<>>
    /\ in_task = NoTask
    /\ in_manual = 0
    /\ in_uploads = 0
    /\ in_lo_pc = "idle"
    /\ in_lo_called_at = "none"
    /\ in_lo_rejected = FALSE
    /\ in_recreated = <<>>
    /\ in_last_outcome = "none"
    /\ api_cfg = StartupCfg
    /\ api_docs = {}
    /\ api_index = {}
    /\ api_response = NoHttpResponse

NextChunk == chunk_call

SpecChunk == InitChunk /\ [][NextChunk]_vars

\* the instructor service serving one course
InitInstructor ==
    /\ in_status = "absent"
    /\ in_sme_docs = {}
    /\ in_sme_index = NoIndex
    /\ in_pending = <<>>
    /\ in_task = NoTask
    /\ in_manual = 0
    /\ in_uploads = 0
    /\ in_lo_pc = "idle"
    /\ in_lo_called_at = "none"
    /\ in_lo_rejected = FALSE
    /\ in_recreated = <<>>
    /\ in_last_outcome = "none"
    /\ lo_pc = "done"
    /\ lo_exception = "none"
    /\ n_los = 0
    /\ modules = <<>>
    /\ mi = 1
    /\ normalized = <<>>
    /\ seen_objectives = {}
    /\ main_attempt = 0
    /\ additional_attempts = 0
    /\ resp_bound = FALSE
    /\ results = <<>>
    /\ main_calls = 0
    /\ div_calls = 0
    /\ accepted_phase = <<>>
    /\ last_outcome = "none"
    /\ quiz_pc = "returned"
    /\ num_questions = 1
    /\ question_types_ok = TRUE
    /\ generated_questions = <<>>
    /\ final_quiz = EmptyQuiz
    /\ quiz_error = "None"
    /\ quiz_file = EmptyQuiz
    /\ quiz_raised = "None"
    /\ quiz_response = NoResponse
    /\ docs = [c \in Courses |-> {}]
    /\ index = [c \in Courses |-> NoIndex]
    /\ work = [c \in Courses |-> NoWork]
    /\ ok_builds = [c \in Courses |-> 0]
    /\ build_calls = 0
    /\ last_req = NoRequest
    /\ client_call = NoCall
    /\ client_result = NoResult
    /\ stream_pc = "ended"
    /\ stream_sent = <<>>
    /\ stream_yielded = <<>>
    /\ cfg_lo_gen_course_id = "None"
    /\ cfg_module_gen_course_id = "None"
    /\ conc_req = [t \in Threads |-> NoReq]
    /\ conc_pc = [t \in Threads |-> "idle"]
    /\ conc_reads = [t \in Threads |-> {}]
    /\ parse_text = EmptyText
    /\ parse_done = TRUE
    /\ parse_result = NoneValue
    /\ mg_pc = "returned"
    /\ mg_objectives = <<>>
    /\ mg_index = NoIndex
    /\ mg_template_len = 0
    /\ mg_context = [o \in Objectives |-> FALSE]
    /\ mg_summaries = <<>>
    /\ mg_calls = <<>>
    /\ mg_processed = <<>>
    /\ mg_max_tokens = <<>>
    /\ mg_content = NoContent
    /\ mg_exception = "none"
    /\ chunk_doc = [spans |-> <<"small">>, fault |-> NoFault, fallback_raises |-> FALSE]
    /\ chunk_done = TRUE
    /\ chunk_out = <<>>
    /\ api_cfg = StartupCfg
    /\ api_docs = {}
    /\ api_index = {}
    /\ api_response = NoHttpResponse

NextInstructor ==
    \/ \E files \in UploadSets, sme_upload_ok \in BOOLEAN, create \in BOOLEAN :
            upload_course_files_to_sme(files, sme_upload_ok, create)
    \/ create_vector_store_async_start
    \/ \E reachable \in BOOLEAN : create_vector_store_async_finish(reachable)
    \/ create_course_vector_store_start
    \/ \E reachable \in BOOLEAN : create_course_vector_store_finish(reachable)
    \/ generate_learning_objectives_check
    \/ generate_learning_objectives_call

SpecInstructor == InitInstructor /\ [][NextInstructor]_vars

\* a started creation task ends: its SME call returns, or raises at the
\* latest when the client's timeout expires
SpecInstructorLive ==
    /\ InitInstructor /\ [][NextInstructor]_vars
    /\ WF_vars(\E reachable \in BOOLEAN : create_vector_store_async_finish(reachable))

\* the SME endpoints answering one request after another
InitApi ==
    /\ api_cfg = StartupCfg
    /\ api_docs = {"c1"}
    /\ api_index = {}
    /\ api_response = NoHttpResponse
    /\ lo_pc = "done"
    /\ lo_exception = "none"
    /\ n_los = 0
    /\ modules = <<>>
    /\ mi = 1
    /\ normalized = <<>>
    /\ seen_objectives = {}
    /\ main_attempt = 0
    /\ additional_attempts = 0
    /\ resp_bound = FALSE
    /\ results = <<>>
    /\ main_calls = 0
    /\ div_calls = 0
    /\ accepted_phase = <<>>
    /\ last_outcome = "none"
    /\ quiz_pc = "returned"
    /\ num_questions = 1
    /\ question_types_ok = TRUE
    /\ generated_questions = <<>>
    /\ final_quiz = EmptyQuiz
    /\ quiz_error = "None"
    /\ quiz_file = EmptyQuiz
    /\ quiz_raised = "None"
    /\ quiz_response = NoResponse
    /\ docs = [c \in Courses |-> {}]
    /\ index = [c \in Courses |-> NoIndex]
    /\ work = [c \in Courses |-> NoWork]
    /\ ok_builds = [c \in Courses |-> 0]
    /\ build_calls = 0
    /\ last_req = NoRequest
    /\ client_call = NoCall
    /\ client_result = NoResult
    /\ stream_pc = "ended"
    /\ stream_sent = <<>>
    /\ stream_yielded = <<>>
    /\ cfg_lo_gen_course_id = "None"
    /\ cfg_module_gen_course_id = "None"
    /\ conc_req = [t \in Threads |-> NoReq]
    /\ conc_pc = [t \in Threads |-> "idle"]
    /\ conc_reads = [t \in Threads |-> {}]
    /\ parse_text = EmptyText
    /\ parse_done = TRUE
    /\ parse_result = NoneValue
    /\ mg_pc = "returned"
    /\ mg_objectives = <<>>
    /\ mg_index = NoIndex
    /\ mg_template_len = 0
    /\ mg_context = [o \in Objectives |-> FALSE]
    /\ mg_summaries = <<>>
    /\ mg_calls = <<>>
    /\ mg_processed = <<>>
    /\ mg_max_tokens = <<>>
    /\ mg_content = NoContent
    /\ mg_exception = "none"
    /\ chunk_doc = [spans |-> <<"small">>, fault |-> NoFault, fallback_raises |-> FALSE]
    /\ chunk_done = TRUE
    /\ chunk_out = <<>>
    /\ in_status = "absent"
    /\ in_sme_docs = {}
    /\ in_sme_index = NoIndex
    /\ in_pending = <<>>
    /\ in_task = NoTask
    /\ in_manual = 0
    /\ in_uploads = 0
    /\ in_lo_pc = "idle"
    /\ in_lo_called_at = "none"
    /\ in_lo_rejected = FALSE
    /\ in_recreated = <<>>
    /\ in_last_outcome = "none"

NextApi ==
    \/ \E req \in QuizRequests, workflow_ok \in BOOLEAN : generate_quiz_http(req, workflow_ok)
    \/ \E c \in Courses, build_ok \in BOOLEAN : create_vector_store_api_http(c, build_ok)
    \/ \E req \in ChatRequests, chain_ok \in BOOLEAN :
            chat_with_course_content_http(req, chain_ok)

SpecApi == InitApi /\ [][NextApi]_vars

\* one streaming inference call
InitStream ==
    /\ stream_pc = "open"
    /\ stream_sent = <<>>
    /\ stream_yielded = <<>>
    /\ lo_pc = "done"
    /\ lo_exception = "none"
    /\ n_los = 0
    /\ modules = <<>>
    /\ mi = 1
    /\ normalized = <<>>
    /\ seen_objectives = {}
    /\ main_attempt = 0
    /\ additional_attempts = 0
    /\ resp_bound = FALSE
    /\ results = <<>>
    /\ main_calls = 0
    /\ div_calls = 0
    /\ accepted_phase = <<>>
    /\ last_outcome = "none"
    /\ quiz_pc = "returned"
    /\ num_questions = 1
    /\ question_types_ok = TRUE
    /\ generated_questions = <<>>
    /\ final_quiz = EmptyQuiz
    /\ quiz_error = "None"
    /\ quiz_file = EmptyQuiz
    /\ quiz_raised = "None"
    /\ quiz_response = NoResponse
    /\ docs = [c \in Courses |-> {}]
    /\ index = [c \in Courses |-> NoIndex]
    /\ work = [c \in Courses |-> NoWork]
    /\ ok_builds = [c \in Courses |-> 0]
    /\ build_calls = 0
    /\ last_req = NoRequest
    /\ client_call = NoCall
    /\ client_result = NoResult
    /\ cfg_lo_gen_course_id = "None"
    /\ cfg_module_gen_course_id = "None"
    /\ conc_req = [t \in Threads |-> NoReq]
    /\ conc_pc = [t \in Threads |-> "idle"]
    /\ conc_reads = [t \in Threads |-> {}]
    /\ parse_text = EmptyText
    /\ parse_done = TRUE
    /\ parse_result = NoneValue
    /\ mg_pc = "returned"
    /\ mg_objectives = <<>>
    /\ mg_index = NoIndex
    /\ mg_template_len = 0
    /\ mg_context = [o \in Objectives |-> FALSE]
    /\ mg_summaries = <<>>
    /\ mg_calls = <<>>
    /\ mg_processed = <<>>
    /\ mg_max_tokens = <<>>
    /\ mg_content = NoContent
    /\ mg_exception = "none"
    /\ chunk_doc = [spans |-> <<"small">>, fault |-> NoFault, fallback_raises |-> FALSE]
    /\ chunk_done = TRUE
    /\ chunk_out = <<>>
    /\ in_status = "absent"
    /\ in_sme_docs = {}
    /\ in_sme_index = NoIndex
    /\ in_pending = <<>>
    /\ in_task = NoTask
    /\ in_manual = 0
    /\ in_uploads = 0
    /\ in_lo_pc = "idle"
    /\ in_lo_called_at = "none"
    /\ in_lo_rejected = FALSE
    /\ in_recreated = <<>>
    /\ in_last_outcome = "none"
    /\ api_cfg = StartupCfg
    /\ api_docs = {}
    /\ api_index = {}
    /\ api_response = NoHttpResponse

NextStream ==
    \/ \E status_ok \in BOOLEAN : stream_open(status_ok)
    \/ \E line \in StreamLines : stream_line(line)
    \/ stream_close
    \/ \E line \in StreamLines : stream_line_unread(line)

SpecStream == InitStream /\ [][NextStream]_vars

\* a client that makes blocking inference calls, one after the other
InitClient ==
    /\ client_call = NoCall
    /\ client_result = NoResult
    /\ lo_pc = "done"
    /\ lo_exception = "none"
    /\ n_los = 0
    /\ modules = <<>>
    /\ mi = 1
    /\ normalized = <<>>
    /\ seen_objectives = {}
    /\ main_attempt = 0
    /\ additional_attempts = 0
    /\ resp_bound = FALSE
    /\ results = <<>>
    /\ main_calls = 0
    /\ div_calls = 0
    /\ accepted_phase = <<>>
    /\ last_outcome = "none"
    /\ quiz_pc = "returned"
    /\ num_questions = 1
    /\ question_types_ok = TRUE
    /\ generated_questions = <<>>
    /\ final_quiz = EmptyQuiz
    /\ quiz_error = "None"
    /\ quiz_file = EmptyQuiz
    /\ quiz_raised = "None"
    /\ quiz_response = NoResponse
    /\ docs = [c \in Courses |-> {}]
    /\ index = [c \in Courses |-> NoIndex]
    /\ work = [c \in Courses |-> NoWork]
    /\ ok_builds = [c \in Courses |-> 0]
    /\ build_calls = 0
    /\ last_req = NoRequest
    /\ stream_pc = "ended"
    /\ stream_sent = <<>>
    /\ stream_yielded = <<>>
    /\ cfg_lo_gen_course_id = "None"
    /\ cfg_module_gen_course_id = "None"
    /\ conc_req = [t \in Threads |-> NoReq]
    /\ conc_pc = [t \in Threads |-> "idle"]
    /\ conc_reads = [t \in Threads |-> {}]
    /\ parse_text = EmptyText
    /\ parse_done = TRUE
    /\ parse_result = NoneValue
    /\ mg_pc = "returned"
    /\ mg_objectives = <<>>
    /\ mg_index = NoIndex
    /\ mg_template_len = 0
    /\ mg_context = [o \in Objectives |-> FALSE]
    /\ mg_summaries = <<>>
    /\ mg_calls = <<>>
    /\ mg_processed = <<>>
    /\ mg_max_tokens = <<>>
    /\ mg_content = NoContent
    /\ mg_exception = "none"
    /\ chunk_doc = [spans |-> <<"small">>, fault |-> NoFault, fallback_raises |-> FALSE]
    /\ chunk_done = TRUE
    /\ chunk_out = <<>>
    /\ in_status = "absent"
    /\ in_sme_docs = {}
    /\ in_sme_index = NoIndex
    /\ in_pending = <<>>
    /\ in_task = NoTask
    /\ in_manual = 0
    /\ in_uploads = 0
    /\ in_lo_pc = "idle"
    /\ in_lo_called_at = "none"
    /\ in_lo_rejected = FALSE
    /\ in_recreated = <<>>
    /\ in_last_outcome = "none"
    /\ api_cfg = StartupCfg
    /\ api_docs = {}
    /\ api_index = {}
    /\ api_response = NoHttpResponse

NextClient == \E call \in ClientCalls : infer_4b_call(call)

SpecClient == InitClient /\ [][NextClient]_vars

(***************************************************************************)
(* Claims about the learning-objective generator (SpecLO)                  *)
(***************************************************************************)
\* the objective lists the run has stored, one per finished module
ReturnedLists == {results[k] : k \in 1..Len(results)}

\* C1: any two distinct objectives of a list returned for a module differ
\* case-insensitively and the later one shares at most 60% of its words with
\* the earlier one, whichever loop accepted them.
C1_PairwiseDiverse ==
    \A l \in ReturnedLists : \A i, j \in 1..Len(l) :
        i < j => /\ Lower(l[i]) # Lower(l[j])
                 /\ ~OverlapExceeds(l[j], l[i])

\* C2: every returned objective has 6 to 20 words, at least 20 characters,
\* begins with a verb of the action-verb set and holds no placeholder pattern.
C2_ReturnedObjectivesValid ==
    \A l \in ReturnedLists : \A i \in 1..Len(l) :
        /\ 6 <= Len(Split(l[i])) /\ Len(Split(l[i])) <= 20
        /\ Len(l[i]) >= 20
        /\ starts_with_verb(Lower(l[i]))
        /\ ~is_placeholder(Lower(l[i]))

\* C3: for every target count N the function returns normally with at most N
\* objectives per module; a short or empty list is no error.  The only
\* exception a run may end with is one that escaped the inference client.
C3_ReturnsNormally ==
    /\ \A l \in ReturnedLists : Len(l) <= n_los
    /\ lo_pc = "raised" => lo_exception = "AttributeError"

\* C4: a module's generation makes at most 10 main-loop calls, then at most
\* 15 diversify-loop calls, none once N objectives are accepted, and ends in
\* DONE (the results stored and returned) unless the inference client raised.
C4_BoundedAndDone ==
    /\ main_calls <= max_main_attempts
    /\ div_calls <= max_additional_attempts
    /\ (div_calls > 0 => lo_pc # "main")
    /\ (Len(normalized) >= n_los => ~(ENABLED NextCall))
    /\ (lo_pc \in {"done", "raised"} =>
            lo_pc = "done" \/ lo_exception = "AttributeError")

CallStep == main_calls' = main_calls + 1 \/ div_calls' = div_calls + 1

C6_ExactQuestionCount ==
    /\ quiz_pc = "returned" => Len(final_quiz.questions) = num_questions
    /\ quiz_file.built => Len(quiz_file.questions) = num_questions

\* ids are exactly 1..N and every correct_answer is one of the option labels
WellFormedQuestions(qs) ==
    /\ \A i \in 1..Len(qs) : qs[i].id = i
    /\ \A i \in 1..Len(qs) : \E k \in 1..Len(qs[i].options) :
           qs[i].options[k] = qs[i].correct_answer

\* C7: every quiz the workflow returns or saves has question ids 1..N with no
\* gap and no duplicate, and each correct_answer is the label of one of the
\* question's options.
C7_IdsAndLabels ==
    /\ quiz_pc = "returned" => WellFormedQuestions(final_quiz.questions)
    /\ quiz_file.built => WellFormedQuestions(quiz_file.questions)

\* C8: once a node has set the error field, every later step leaves the
\* questions, the final quiz, the written file and the error message as they
\* are, the workflow never returns a quiz, and the runner raises with that
\* message.
C8_ErrorShortCircuits ==
    [][ErrorSet(quiz_error) =>
          /\ quiz_error' = quiz_error
          /\ generated_questions' = generated_questions
          /\ final_quiz' = final_quiz
          /\ quiz_file' = quiz_file
          /\ quiz_pc' # "returned"
          /\ (quiz_pc' = "raised" => quiz_raised' = quiz_error)]_vars

\* the first node failed, the later nodes ran, and the runner raised with the
\* first node's message: no quiz was built and no file written
C8_Witness ==
    /\ quiz_pc = "raised"
    /\ quiz_raised = "Question generation failed"
    /\ question_types_ok
    /\ final_quiz = EmptyQuiz
    /\ quiz_file = EmptyQuiz

\* the backend answered with a JSON object whose questions list is empty or
\* absent
EmptyObjectResponse ==
    \/ quiz_response.kind = "object_without_questions"
    \/ quiz_response.kind = "object" /\ quiz_response.questions = <<>>

\* C9: a JSON object with an empty or absent questions list makes
\* generate_questions_node set the error field: the workflow does not return,
\* builds no quiz and saves no file.
C9_EmptyListIsFailure ==
    EmptyObjectResponse =>
        /\ quiz_error = "Question generation failed"
        /\ generated_questions = <<>>
        /\ final_quiz = EmptyQuiz
        /\ quiz_file = EmptyQuiz
        /\ quiz_pc # "returned"

\* the workflow raised on an object with an empty questions list
C9_Witness ==
    /\ quiz_response.kind = "object"
    /\ quiz_response.questions = <<>>
    /\ quiz_pc = "raised"
    /\ quiz_raised = "Question generation failed"

(***************************************************************************)
(* Claims about the vector index (SpecVS)                                  *)
(***************************************************************************)
\* C10: a build for a course whose index exists loads that index and does no
\* document loading, chunking, embedding or saving, so the index is embedded
\* exactly once however many builds succeed, and stays as it was built.
C10_BuildIdempotent ==
    /\ [](\A c \in Courses : /\ work[c].embeds <= 1
                             /\ (ok_builds[c] >= 1 => work[c].embeds = 1))
    /\ [][\A c \in Courses : index[c].exists =>
              (index'[c] = index[c] /\ work'[c] = work[c])]_vars

\* two builds of one course succeeded, the second one after a further upload,
\* and the course was embedded once
C10_Witness ==
    \E c \in Courses :
        /\ ok_builds[c] >= 2
        /\ work[c].embeds = 1
        /\ index[c].files # docs[c]

(***************************************************************************)
(* Claims about the request handlers and the index store (SpecVS)          *)
(***************************************************************************)
\* the request just served was of this kind, for course c
JustServed(kind, c) == last_req'.kind = kind /\ last_req'.course = c

\* C11: generate_module_content for a course without a persisted index fails
\* with FileNotFoundError before any retrieval or inference call, and builds
\* no index.
C11_ModuleNeedsIndex ==
    [][\A c \in Courses :
          (JustServed("generate_module", c) /\ ~index[c].exists) =>
              /\ last_req'.outcome = "FileNotFoundError"
              /\ last_req'.retrievals = 0
              /\ last_req'.inference_calls = 0
              /\ index' = index
              /\ work' = work]_vars

\* module content was requested for a course with documents but no index
C11_Witness ==
    /\ last_req.kind = "generate_module"
    /\ last_req.outcome = "FileNotFoundError"
    /\ docs[last_req.course] # {}
    /\ ~index[last_req.course].exists

\* every loader raises or extracts nothing on the file
BadFile(f) ==
    \A k \in 1..Len(LoadersOf(f)) : LoaderResult(f, LoadersOf(f)[k]) # "docs"

\* a /createvs step for course c that has documents and no index yet
BuildStep(c) ==
    /\ JustServed("createvs", c)
    /\ build_calls' = build_calls + 1
    /\ docs[c] # {}
    /\ ~index[c].exists

\* C14: building the index of a directory records each file that no loader
\* can read as failed and still indexes the chunks of all the other files; it
\* raises only when no document or no chunk results, and then persists
\* nothing.
C14_BadFilesAreSkipped ==
    [][\A c \in Courses : BuildStep(c) =>
          LET bad    == {f \in docs[c] : BadFile(f)}
              chunks == {f \in docs[c] \ bad : Chunkable(f)}
          IN  /\ last_req'.failed_files = bad
              /\ chunks # {} => /\ last_req'.outcome = "created"
                                /\ index'[c] = [exists |-> TRUE, files |-> chunks]
              /\ chunks = {} => /\ last_req'.outcome = "ValueError"
                                /\ index'[c] = index[c]
                                /\ work'[c].embeds = work[c].embeds
                                /\ work'[c].saves = work[c].saves]_vars

\* an index was built from a directory holding a file that did not load
C14_Witness ==
    /\ last_req.kind = "createvs"
    /\ last_req.outcome = "created"
    /\ last_req.failed_files # {}
    /\ index[last_req.course].files # {}

\* C15: a chat request for a course without a persisted index is rejected
\* before any retrieval or inference call and builds no index.
C15_ChatNeedsIndex ==
    [][\A c \in Courses :
          (JustServed("chat", c) /\ ~index[c].exists) =>
              /\ last_req'.outcome = "rejected"
              /\ last_req'.retrievals = 0
              /\ last_req'.inference_calls = 0
              /\ index' = index
              /\ work' = work]_vars

\* a chat request was rejected for a course with documents but no index
C15_Witness ==
    /\ last_req.kind = "chat"
    /\ last_req.outcome = "rejected"
    /\ docs[last_req.course] # {}
    /\ ~index[last_req.course].exists

\* C16: the objective, module-content and quiz generation requests leave
\* every course's persisted index as it is, also when it is missing; only a
\* /createvs request changes the index store.
C16_GenerationReadsOnly ==
    [][/\ (last_req'.kind \in {"generate_los", "generate_module", "generate_quiz"}
              => index' = index)
       /\ (index' # index => last_req'.kind = "createvs")]_vars

\* a quiz was generated for a course with documents and no index, and the
\* course still has no index
C16_Witness ==
    /\ last_req.kind = "generate_quiz"
    /\ last_req.inference_calls = 1
    /\ docs[last_req.course] # {}
    /\ ~index[last_req.course].exists

(***************************************************************************)
(* Claims about the blocking inference call (SpecClient)                   *)
(***************************************************************************)
\* C12: one blocking inference call issues at most RETRIES + 1 requests, a
\* further one only after the previous one timed out; the first request that
\* does not time out ends the call, with ok = true exactly when it succeeded.
C12_RetryOnlyTimeouts ==
    client_call # NoCall =>
        LET h == client_call.http
            k == client_result.requests
        IN  /\ k \in 1..(RETRIES + 1)
            /\ \A i \in 1..(k - 1) : h[i] = "timeout"
            /\ (k < RETRIES + 1 => h[k] # "timeout")
            /\ (client_result.ok <=> h[k] = "ok")

\* a call whose first request timed out and whose second met an HTTP error
\* status: two requests, ok = false, although a third would have succeeded
C12_Witness ==
    /\ client_call # NoCall
    /\ client_call.http = <<"timeout", "status_error", "ok">>
    /\ client_result.requests = 2
    /\ ~client_result.ok

\* the data lines that carry the end-of-stream sentinel
SentinelLines == {RawLine(<<"d","a","t","a",":"," ","[","D","O","N","E","]">>), RawLine(<<"d","a","t","a",":"," "," ","[","D","O","N","E","]"," ">>)}

\* the lines sent before the first sentinel
BeforeSentinel(lines) ==
    IF \E i \in 1..Len(lines) : lines[i] \in SentinelLines
    THEN SubSeq(lines, 1, (CHOOSE i \in 1..Len(lines) :
                              /\ lines[i] \in SentinelLines
                              /\ \A j \in 1..(i - 1) : lines[j] \notin SentinelLines) - 1)
    ELSE lines

\* a 'data: ' line whose chunk has a non-empty content delta
IsContentDelta(line) ==
    \E content \in {"Hel", "lo"} : line = DeltaLine(DataField, content)

ContentsOf(lines) == [i \in 1..Len(lines) |-> lines[i].content]

ZeroAddAttempt ==
    /\ lo_pc = "diversify"
    /\ div_calls' = div_calls + 1
    /\ lo_pc' # "raised"
    /\ normalized' = normalized

\* C17 as stated: the diversify loop stops as soon as one attempt adds zero
\* new objectives, even below the cap of 15 attempts: after such an attempt
\* no further diversify inference call can be made for the module.
C17_StopsOnFirstZeroAdd ==
    [][ZeroAddAttempt =>
          ~(lo_pc' = "diversify"
            /\ DiversifyLoopContinues(normalized', n_los, additional_attempts'))]_vars

\* C17 amended: an attempt that adds zero new objectives stops the diversify
\* loop exactly when it is the sixth or a later attempt for the module; after
\* a zero-add attempt among the first five the loop goes on.
C17_StopsOnZeroAddAfterFive ==
    [][ZeroAddAttempt =>
          /\ (additional_attempts' > 5 => lo_pc' = "store")
          /\ (additional_attempts' <= 5 =>
                  /\ lo_pc' = "diversify"
                  /\ DiversifyLoopContinues(normalized', n_los, additional_attempts'))]_vars

\* six attempts that added nothing, the sixth of which left the loop short of
\* the target and below the cap
C17_Witness ==
    /\ lo_pc = "store"
    /\ additional_attempts = 6
    /\ Len(normalized) < n_los
    /\ \A i \in 1..Len(accepted_phase) : accepted_phase[i] # "diversify"

\* C18: under concurrent generation requests against the shared config, each
\* request reads only the course id it supplied when it locates its vector
\* store and its document directory, whatever the interleaving of the
\* in-place writes to cfg.lo_gen.course_id and cfg.module_gen.course_id.
C18_ReadsOwnCourseId ==
    \A t \in Threads :
        conc_pc[t] # "idle" => conc_reads[t] \subseteq {conc_req[t].courseID}

\* what each strategy of parse_json_array makes of the text, in the order
\* in which the strategies are tried
StrategyResults(text) ==
    <<QuickStrategy(text), ThinkStrategy(text), JsonAnywhereStrategy(text),
      NumberedStrategy(text), DelimiterStrategy(text)>>

\* the strategy yields at least one valid objective
YieldsValid(r) == r.returned /\ Truthy(r.value)

\* C19: the strategies are tried in order until one yields a valid list: a
\* strategy that finds a candidate without any valid objective does not end
\* parsing, so the result is the list of the first strategy that yields at
\* least one valid objective, and none only if no strategy yields one.
C19_FirstYieldingStrategyWins ==
    parse_done =>
        LET r == StrategyResults(parse_text)
            yielding == {k \in 1..Len(r) : YieldsValid(r[k])}
        IN  IF yielding = {}
            THEN parse_result = NoneValue
            ELSE parse_result =
                     r[CHOOSE k \in yielding : \A j \in yielding : k <= j].value

\* the cleaned strings that the text holds: the items of its array and the
\* lines of its numbered list
ObjectivesIn(text) ==
    {ObjClean(text.items[i]) : i \in 1..Len(text.items)}
    \cup {ObjClean(NumberedLines(text)[i]) : i \in 1..Len(NumberedLines(text))}

\* C20: every list returned by parse_json_array is non-empty, each element
\* passes the validator's per-objective rules, no two elements are equal,
\* and every element comes from the text.
C20_ReturnedListValidAndUnique ==
    (parse_done /\ ~parse_result.isNone) =>
        LET l == parse_result.list
        IN  /\ l # <<>>
            /\ \A i \in 1..Len(l) : PassesValidation(l[i])
            /\ \A i, j \in 1..Len(l) : i # j => l[i] # l[j]
            /\ Range(l) \subseteq ObjectivesIn(parse_text)

\* C21: the generation call is made only after a summarization call has
\* succeeded for every learning objective, each of which had retrieved
\* chunks; there is at most one generation call; and once a summarization
\* call has failed or an objective has turned out to have no chunks, the
\* operation has raised, without any generation call and without content.
C21_GenerationAfterAllSummaries ==
    LET generation == {i \in 1..Len(mg_calls) : mg_calls[i].kind = "generate"}
        failed == {j \in 1..Len(mg_calls) :
                      mg_calls[j].kind = "summarize" /\ ~mg_calls[j].ok}
    IN  /\ Cardinality(generation) <= 1
        /\ \A i \in generation : \A o \in Range(mg_objectives) :
               /\ mg_context[o]
               /\ \E j \in 1..(i - 1) :
                      mg_calls[j] = [kind |-> "summarize", objective |-> o, ok |-> TRUE]
        /\ (failed # {} \/ mg_exception = "ValueError") =>
               /\ generation = {}
               /\ mg_pc = "raised"
               /\ mg_content = NoContent

\* a first summary succeeded, the second summarization call came back with
\* ok = false: the operation has raised
C21_Witness ==
    /\ mg_pc = "raised"
    /\ mg_exception = "Exception"
    /\ Len(mg_calls) = 2
    /\ mg_calls[1] = [kind |-> "summarize", objective |-> "o1", ok |-> TRUE]
    /\ mg_calls[2] = [kind |-> "summarize", objective |-> "o2", ok |-> FALSE]
    /\ mg_content = NoContent

\* C22: whenever post-processing finds '</think>' in a response, the text
\* after the delimiter replaces the response only if it is longer than 50
\* characters, and the unstripped text is kept otherwise; this holds for
\* the per-objective summaries and for the final generated content.
C22_StrippedOnlyIfSubstantial ==
    \A i \in 1..Len(mg_processed) :
        LET full == Strip(mg_processed[i].raw)
        IN  mg_processed[i].out =
                IF HasThinkClose(full) /\ Len(Strip(AfterLastThinkClose(full))) > 50
                THEN Strip(AfterLastThinkClose(full))
                ELSE full

\* C23: the output token budget with which the generation call is made,
\* 8192 - floor(len(prompt) / 4) - 100, is strictly positive.
C23_PositiveTokenBudget ==
    mg_max_tokens # <<>> => mg_max_tokens[1] > 0

\* C24: if the semantic path raises for a document, in the semantic
\* splitter or while an oversized semantic chunk is sub-split, every chunk
\* emitted for the document is tagged character_fallback, and no span of
\* the document is emitted twice.
C24_FallbackReplacesSemantic ==
    (chunk_done /\ chunk_doc.fault.kind # "none") =>
        /\ \A i \in 1..Len(chunk_out) : chunk_out[i].chunk_method = "character_fallback"
        /\ \A i, j \in 1..Len(chunk_out) :
               (i # j) => <<chunk_out[i].span, chunk_out[i].part>>
                            # <<chunk_out[j].span, chunk_out[j].part>>

\* the SME create-index calls in flight for the course
CreateCallsInFlight == (IF in_task = NoTask THEN 0 ELSE 1) + in_manual

\* C25: for any interleaving of upload-to-sme requests that trigger
\* creation and manual create-vector-store requests for one course, a
\* creation that finds one in progress is skipped: at most one SME
\* create-index call is in flight for the course.
C25_OneCreationInFlight ==
    CreateCallsInFlight <= 1

\* the files of a request that can end up in an index
Indexable(files) == {f \in files : Loadable(f) /\ Chunkable(f)}

\* C26: when files were uploaded for a course whose status was 'ready' and
\* creation was triggered, then once the status is 'ready' again the
\* persisted index holds the chunks of the files of that upload.
C26_RecreatedIndexHasNewFiles ==
    (in_status = "ready" /\ in_recreated # <<>>) =>
        Indexable(in_recreated[1]) \subseteq in_sme_index.files

\* C27: at the moment the instructor service calls SME objective
\* generation the course's status is 'ready'; no interleaving with uploads
\* lets the call start while the status is 'creating'.
C27_GenerationOnlyWhenReady ==
    in_lo_called_at \in {"none", "ready"}

\* the status becomes 'ready' only in the step in which a creation task's
\* SME call returns successfully
ReadyOnlyAfterSuccess ==
    (in_status' = "ready" /\ in_status # "ready") =>
        /\ in_status = "creating"
        /\ in_task # NoTask
        /\ in_task' = NoTask
        /\ in_last_outcome' = "ok"

\* C30: once a background creation task has set the status to 'creating',
\* the status eventually becomes 'ready' or 'failed', and it becomes
\* 'ready' only after the SME create-index call of that task returned
\* successfully.
C30_CreatingEndsReadyOrFailed ==
    /\ [][ReadyOnlyAfterSuccess]_vars
    /\ (in_status = "creating") ~> (in_status \in {"ready", "failed"})

\* a creation task has failed, and an earlier one had made the course ready
C30_Witness ==
    /\ in_status = "failed"
    /\ in_last_outcome = "error"
    /\ in_task = NoTask
    /\ in_sme_index.exists

\* C28: a client-error rejection raised inside an SME handler reaches the
\* caller as a 400 response: generate-quiz with empty module content,
\* createvs with no documents, and chat with an empty prompt, an empty
\* course id, missing documents or a missing index respond 400, and none of
\* them invokes the workflow, the index build or retrieval.
C28_ClientErrorsAre400 ==
    api_response.raised = 400 =>
        /\ api_response.status = 400
        /\ ~api_response.invoked

\* C29: what a generate_quiz request's workflow reads of the configuration
\* (the course index and the retrieval depth) is what the request's own
\* fields and the startup configuration give: overrides of an earlier
\* request do not reach a later request that omits them.
C29_QuizIndependentOfEarlierRequests ==
    (api_response.handler = "generate_quiz" /\ api_response.invoked) =>
        api_response.used = api_response.fresh
====
